---- MODULE Spec2Model ----
(***************************************************************************)
(* Royal_Chess: the server-side room coordinator of src/app.js.            *)
(*                                                                         *)
(* The server is a single-threaded Node.js process: every socket.io event  *)
(* handler, every setTimeout callback and every setInterval callback runs  *)
(* to completion before the next one starts.  Each of them is one action.  *)
(*                                                                         *)
(* Time.  `now` is Date.now() in milliseconds.  It moves to the next sweep  *)
(* instant when the idle-room sweep (setInterval, 30 min) fires, and by    *)
(* timePasses between two sweep instants, which is what the chat rate      *)
(* limiter measures; a handler reads the value the clock was moved to      *)
(* last.  The                                                              *)
(* sweep compares now - lastActivity with one hour, a multiple of its own  *)
(* period, so the sampled value decides the comparison exactly as the real *)
(* one does.  The 30 s grace timers are shorter than one sweep period: a   *)
(* pending grace timer fires at any later point, in arming order, and      *)
(* outlives at most one sweep instant.                                     *)
(*                                                                         *)
(* Left out because no handler reads them: room.createdAt and              *)
(* room.currentPlayer, the id of a chat entry, the performance monitor,    *)
(* the express routes.                                                     *)
(* The rules engine (chess.js) is reduced to its contract: a position has  *)
(* a side to move, a move is accepted, refused or throws, and an accepted  *)
(* move flips the side to move.                                            *)
(***************************************************************************)
EXTENDS Integers, Sequences, FiniteSets, TLC

(* ------------------------------ bounds --------------------------------- *)
\* connections (socket ids) that ever connect
MaxConns == 3
\* connections that send events in the slices of the seat protocol, the game
\* and the chat; the others stay connected and idle there
MaxActive == 2
\* rooms ever created by getOrCreateRoom in one run
MaxRooms == 2
\* session tokens ever generated in one run
MaxTokens == 2
\* longest spectators list explored
MaxSpectators == 1
\* longest moveHistory explored
MaxMoves == 2
\* idle sweeps that fire in one run
MaxSweeps == 3
\* accepted chat messages of one room in the chat slice
MaxChat == 7
\* step of the clock between two sweep instants, in milliseconds
ChatTickMs == 20000
\* the clock of the chat slice stops at this instant
ChatHorizonMs == 40000
\* accepted chat messages of one room in the sweep slice
MaxSweepChat == 1

(* ------------------------- program constants --------------------------- *)
GracePeriodMs == 30000
InactivityThresholdMs == 3600000
SweepIntervalMs == 1800000
RoomIdMinLen == 4
RoomIdMaxLen == 12
\* checkRateLimit(socket.id, 'chat', 5, 30000)
ChatRateMax == 5
ChatWindowMs == 30000
\* validateInput(data.message, 200)
ChatMaxLen == 200
\* room.chatHistory.slice(-50)
ChatHistoryMax == 50

(* ------------------------------ values --------------------------------- *)
Conns == 1..MaxConns
Active == 1..MaxActive
\* value of an absent property (undefined)
None == 0
Tokens == 1..MaxTokens
Seats == {"white", "black"}
validRoles == {"white", "black", "spectator"}
\* preferredRole values a client may send
RoleInputs == validRoles \cup {"viewer", "undefined"}

\* room identifiers a client may send, as strings of characters
\* (a character outside ASCII is written as its code point)
RoomIdInputs ==
    { <<"T","E","S","T","-","1">>,
      <<"r","o","o","m">>,
      <<"a","b","c">>,
      <<"b","a","d","!">>,
      <<"U+0131","a","b","c">>,
      <<"U+00DF","a","b">> }

LowerCase == <<"a","b","c","d","e","f","g","h","i","j","k","l","m",
               "n","o","p","q","r","s","t","u","v","w","x","y","z">>
UpperCase == <<"A","B","C","D","E","F","G","H","I","J","K","L","M",
               "N","O","P","Q","R","S","T","U","V","W","X","Y","Z">>
Digits == {"0","1","2","3","4","5","6","7","8","9"}

\* the upper case of one character: a-z map to A-Z; of the characters outside
\* ASCII, dotless i (U+0131) maps to I, long s (U+017F) to S and sharp s
\* (U+00DF) to the two characters SS
upperCaseOf(ch) ==
    IF \E i \in 1..Len(LowerCase) : LowerCase[i] = ch
    THEN << UpperCase[CHOOSE i \in 1..Len(LowerCase) : LowerCase[i] = ch] >>
    ELSE IF ch = "U+0131" THEN << "I" >>
    ELSE IF ch = "U+017F" THEN << "S" >>
    ELSE IF ch = "U+00DF" THEN << "S", "S" >>
    ELSE << ch >>

\* String.prototype.toUpperCase
RECURSIVE toUpperCase(_)
toUpperCase(str) ==
    IF str = << >> THEN << >>
    ELSE upperCaseOf(Head(str)) \o toUpperCase(Tail(str))

\* the character class [A-Z0-9\-]
roomPatternChar(ch) ==
    \/ \E i \in 1..Len(UpperCase) : UpperCase[i] = ch
    \/ ch \in Digits
    \/ ch = "-"

\* validateRoomId: /^[A-Z0-9\-]{4,12}$/ on roomId.toUpperCase(); the empty
\* string is falsy and rejected by the first test
validateRoomId(roomId) ==
    LET upper == toUpperCase(roomId)
    IN  /\ Len(roomId) # 0
        /\ Len(upper) >= RoomIdMinLen
        /\ Len(upper) <= RoomIdMaxLen
        /\ \A i \in 1..Len(upper) : roomPatternChar(upper[i])

ValidRoomIds == { id \in RoomIdInputs : validateRoomId(id) }

(* --------------------------- rules engine ------------------------------ *)
\* the conditions the move handler asks the engine about, in the order of its
\* if / else-if chain
EndConditions == << "checkmate", "stalemate", "threefold", "insufficient", "draw" >>
\* the position a move leaves is terminal: the conditions that hold in it
ConditionsOf(over) ==
    IF over = "checkmate+threefold" THEN {"checkmate", "threefold"}
    ELSE IF over = "stalemate" THEN {"stalemate", "draw"}
    ELSE IF over = "threefold" THEN {"threefold", "draw"}
    ELSE IF over = "insufficient" THEN {"insufficient", "draw"}
    ELSE IF over = "none" THEN {}
    ELSE {over}
\* new Chess(): the starting position, white to move
NewChess == [turn |-> "w", ply |-> 0, over |-> "none"]
\* chess.turn()
ChessTurn(chess) == chess.turn
\* chess.fen(): the external representation of the position
ChessFen(chess) == <<chess.turn, chess.ply>>
\* the position after chess.move(m) accepted m
ChessMove(chess) ==
    [turn |-> IF chess.turn = "w" THEN "b" ELSE "w", ply |-> chess.ply + 1,
     over |-> "none"]
\* what chess.move(m) may do with a move: accept it, return null, or throw
MoveOutcomes == {"accepted", "null", "throws"}
\* chess.move(m) accepts the move and the position it leaves is terminal
TerminalOutcomes ==
    {"checkmate", "stalemate", "threefold", "insufficient", "draw",
     "checkmate+threefold"}
\* the position after chess.move(m) with the given outcome
ChessMoveOutcome(chess, outcome) ==
    IF outcome \in TerminalOutcomes
    THEN [ChessMove(chess) EXCEPT !.over = outcome]
    ELSE ChessMove(chess)
\* a position with no legal move (checkmate, stalemate) accepts none
ChessHasLegalMove(chess) ==
    ConditionsOf(chess.over) \cap {"checkmate", "stalemate"} = {}
\* the methods of the Chess class of chess.js 1.0.0-beta.8 the server could
\* call; the 0.x names (game_over, in_checkmate, ...) are not among them
ChessMethods ==
    {"move", "turn", "fen", "reset", "isGameOver", "isCheckmate", "isStalemate",
     "isThreefoldRepetition", "isInsufficientMaterial", "isDraw"}
\* moves a client may submit
MoveInputs == {"e2e4"}
\* result.san: the notation chess.move gives the accepted move
ResultSan(m) == IF m = "e2e4" THEN "e4" ELSE m

(* ------------------------------- state --------------------------------- *)
VARIABLES
    now,              \* Date.now() at the last sweep instant
    heap,             \* the room objects ever created, in creation order
    gameRooms,        \* room id -> index of its room object in heap, or None
    playerSessions,   \* token -> [roomId, role], or NoSession once deleted
    sessionOwner,     \* token -> the connection the sessionId was sent to
    connected,        \* connection -> its transport is open
    socketRoomId,     \* connection -> socket.roomId
    socketRooms,      \* connection -> the socket.io rooms it has joined
    timers,           \* pending grace timers in arming order: the socket id,
                      \* room id and room object the closure holds, whether a
                      \* sweep instant has passed since, and whether arming it
                      \* cancelled an earlier timer
    disconnectTimers, \* connection -> disconnectTimers.has(socket.id)
    sessionSweepDue,  \* the session sweep of this sweep instant has not run
    rateLimits,       \* connection -> the entry of key "<socket id>-chat" in
                      \* rateLimits, or NoLimit
    out               \* messages emitted by the handler that ran last

vars == << now, heap, gameRooms, playerSessions, sessionOwner, connected,
           socketRoomId, socketRooms, timers, disconnectTimers,
           sessionSweepDue, rateLimits, out >>

NoRoomId == << >>
NoSession == [roomId |-> NoRoomId, role |-> "none"]
\* rateLimits has no entry for the key
NoLimit == [count |-> 0, resetTime |-> 0]

\* the room object getOrCreateRoom builds
NewRoom ==
    [ chess |-> NewChess,
      players |-> [white |-> None, black |-> None],
      spectators |-> << >>,
      moveHistory |-> << >>,
      chatHistory |-> << >>,
      lastActivity |-> now ]

\* what is left of a room object nothing refers to any more
Collected ==
    [ chess |-> NewChess,
      players |-> [white |-> None, black |-> None],
      spectators |-> << >>,
      moveHistory |-> << >>,
      chatHistory |-> << >>,
      lastActivity |-> 0 ]

\* garbage collection: a room object that is neither in the registry g nor
\* held by the closure of a pending timer in ts is never read again
Collect(h, g, ts) ==
    [ i \in 1..Len(h) |->
        IF \/ \E id \in ValidRoomIds : g[id] = i
           \/ \E k \in 1..Len(ts) : ts[k].room = i
        THEN h[i] ELSE Collected ]

\* gameRooms[roomId] is truthy
RoomExists(roomId) == roomId \in ValidRoomIds /\ gameRooms[roomId] # None
\* the room object gameRooms[roomId]
RoomOf(roomId) == heap[gameRooms[roomId]]

(* ------------------------------ messages ------------------------------- *)
\* the connections in socket.io room roomId
Members(roomId) == { c \in Conns : roomId \in socketRooms[c] }
\* socket.emit(ev, body)
Unicast(c, ev, body) == [ev |-> ev, to |-> {c}, room |-> NoRoomId, body |-> body]
\* io.to(roomId).emit(ev, body), delivered to the members held in joined
BroadcastTo(joined, roomId, ev, body) ==
    [ev |-> ev, to |-> { c \in Conns : roomId \in joined[c] },
     room |-> roomId, body |-> body]
\* io.to(socketId).emit(ev, body): every socket is alone in the room named by
\* its id, and has left it once it is disconnected
EmitToSocket(id, ev, body) ==
    [ev |-> ev, to |-> { c \in Conns : c = id /\ connected[c] },
     room |-> NoRoomId, body |-> body]
\* the occupancy summary of playersUpdate
PlayersUpdate(room) ==
    [ white |-> IF room.players.white # None THEN "connected" ELSE "waiting",
      black |-> IF room.players.black # None THEN "connected" ELSE "waiting",
      spectators |-> Len(room.spectators) ]

Init ==
    /\ now = 0
    /\ heap = << >>
    /\ gameRooms = [id \in ValidRoomIds |-> None]
    /\ playerSessions = << >>
    /\ sessionOwner = << >>
    /\ connected = [c \in Conns |-> TRUE]
    /\ socketRoomId = [c \in Conns |-> NoRoomId]
    /\ socketRooms = [c \in Conns |-> {}]
    /\ timers = << >>
    /\ disconnectTimers = [c \in Conns |-> FALSE]
    /\ sessionSweepDue = FALSE
    /\ rateLimits = [c \in Conns |-> NoLimit]
    /\ out = << >>

(* ------------------------------ joinRoom ------------------------------- *)
\* the occupancy test left out: every seat passes for free
SeatFreeUnchecked(room, role) == TRUE

\* !room.players[role]: the seat has no holder
SeatFree(room, role) == room.players[role] = None

\* the heap after getOrCreateRoom(roomId): a new room object when the id has
\* none, and lastActivity refreshed in either case
getOrCreateRoomHeap(roomId) ==
    LET created == gameRooms[roomId] = None
        h == IF created THEN Append(heap, NewRoom) ELSE heap
        idx == IF created THEN Len(heap) + 1 ELSE gameRooms[roomId]
    IN  [h EXCEPT ![idx].lastActivity = now]

\* gameRooms after getOrCreateRoom(roomId)
getOrCreateRoomIndex(roomId) ==
    IF gameRooms[roomId] = None
    THEN [gameRooms EXCEPT ![roomId] = Len(heap) + 1]
    ELSE gameRooms

\* the role the joinRoom branches end with
joinAssignedRole(room, preferredRole) ==
    IF preferredRole = "white"
    THEN IF SeatFree(room, "white") THEN "white" ELSE "spectator"
    ELSE IF preferredRole = "black"
    THEN IF SeatFree(room, "black") THEN "black" ELSE "spectator"
    ELSE IF preferredRole = "viewer" \/ preferredRole = "spectator"
    THEN "spectator"
    ELSE IF SeatFree(room, "white") THEN "white"
    ELSE IF SeatFree(room, "black") THEN "black"
    ELSE "spectator"

\* the joinRoom branches push socket.id to room.spectators
joinPushesSpectator(room, preferredRole) ==
    joinAssignedRole(room, preferredRole) = "spectator"

\* the notice of a taken seat left out
joinRoleUnavailableNever(room, preferredRole) == FALSE

\* the joinRoom branches emit roleUnavailable: a named seat that is taken
joinRoleUnavailable(room, preferredRole) ==
    preferredRole \in Seats /\ ~SeatFree(room, preferredRole)

\* a token that is not new: the one issued last
generateSessionIdStale == Len(playerSessions)

\* generateSessionId(): a token no session was stored under before
generateSessionId == Len(playerSessions) + 1

\* the delivery with the role sent last
RoomDeliveryRoleLast(c, room, role) ==
    << Unicast(c, "boardState", ChessFen(room.chess)),
       Unicast(c, "moveHistory", room.moveHistory),
       Unicast(c, "chatHistory", room.chatHistory),
       Unicast(c, "roleAssigned", role) >>

\* the four unicasts that deliver the room to a connection
RoomDelivery(c, room, role) ==
    << Unicast(c, "roleAssigned", role),
       Unicast(c, "boardState", ChessFen(room.chess)),
       Unicast(c, "moveHistory", room.moveHistory),
       Unicast(c, "chatHistory", room.chatHistory) >>

joinRoom(c, roomId, preferredRole) ==
    /\ connected[c]
    /\ IF ~validateRoomId(roomId)
       THEN /\ out' = << Unicast(c, "error", "Invalid room ID format") >>
            /\ UNCHANGED << now, heap, gameRooms, playerSessions, sessionOwner,
                            connected, socketRoomId, socketRooms, timers,
                            disconnectTimers, sessionSweepDue, rateLimits >>
       ELSE IF preferredRole \notin validRoles
       THEN /\ out' = << Unicast(c, "error", "Invalid role specified") >>
            /\ UNCHANGED << now, heap, gameRooms, playerSessions, sessionOwner,
                            connected, socketRoomId, socketRooms, timers,
                            disconnectTimers, sessionSweepDue, rateLimits >>
       ELSE LET h0 == getOrCreateRoomHeap(roomId)
                idx == getOrCreateRoomIndex(roomId)[roomId]
                room0 == h0[idx]
                role == joinAssignedRole(room0, preferredRole)
                spect == joinPushesSpectator(room0, preferredRole)
                room1 == IF role \in Seats
                         THEN [room0 EXCEPT !.players[role] = c]
                         ELSE IF spect
                         THEN [room0 EXCEPT !.spectators = Append(@, c)]
                         ELSE room0
                joined == [socketRooms EXCEPT ![c] = @ \cup {roomId}]
            IN  /\ gameRooms[roomId] = None => Len(heap) < MaxRooms
                /\ role \in Seats => Len(playerSessions) < MaxTokens
                /\ spect => Len(room0.spectators) < MaxSpectators
                /\ heap' = [h0 EXCEPT ![idx] = room1]
                /\ gameRooms' = getOrCreateRoomIndex(roomId)
                /\ socketRooms' = joined
                /\ socketRoomId' = [socketRoomId EXCEPT ![c] = roomId]
                /\ IF role \in Seats
                   THEN /\ playerSessions' =
                              Append(playerSessions, [roomId |-> roomId, role |-> role])
                        /\ sessionOwner' = Append(sessionOwner, c)
                   ELSE UNCHANGED << playerSessions, sessionOwner >>
                /\ out' =
                     (IF role \in Seats
                      THEN << Unicast(c, "sessionId", generateSessionId) >>
                      ELSE IF joinRoleUnavailable(room0, preferredRole)
                      THEN << Unicast(c, "roleUnavailable", preferredRole) >>
                      ELSE << >>)
                     \o RoomDelivery(c, room1, role)
                     \o << BroadcastTo(joined, roomId, "playersUpdate",
                                       PlayersUpdate(room1)) >>
                /\ UNCHANGED << now, connected, timers, disconnectTimers,
                                sessionSweepDue, rateLimits >>

(* ----------------------- disconnect and grace timer --------------------- *)
\* seq without its element at index i
RemoveAt(seq, i) == SubSeq(seq, 1, i - 1) \o SubSeq(seq, i + 1, Len(seq))

\* the pending timer disconnectTimers.get(c) refers to: the one armed last for c
TimerIndex(ts, c) ==
    CHOOSE i \in 1..Len(ts) :
        ts[i].conn = c /\ \A j \in (i + 1)..Len(ts) : ts[j].conn # c

\* the earlier timer left to run
clearExistingTimerSkipped(c) == timers

\* the pending timers after "if (disconnectTimers.has(socket.id)) clearTimeout(...)"
clearExistingTimer(c) ==
    IF disconnectTimers[c] /\ \E i \in 1..Len(timers) : timers[i].conn = c
    THEN RemoveAt(timers, TimerIndex(timers, c))
    ELSE timers

\* room.spectators.filter(id => id !== socket.id)
removeSpectator(room, c) ==
    [room EXCEPT !.spectators = SelectSeq(@, LAMBDA id : id # c)]

\* handleDisconnection(socket), called by the 'disconnect' listener.  socket.io
\* has taken the socket out of its rooms before the listener runs.  The
\* listener is written for a repeated event (it clears a timer it armed
\* before), so the action is open to a connection that is already closed.
disconnect(c) ==
    /\ connected' = [connected EXCEPT ![c] = FALSE]
    /\ socketRooms' = [socketRooms EXCEPT ![c] = {}]
    /\ out' = << >>
    /\ IF socketRoomId[c] # NoRoomId /\ RoomExists(socketRoomId[c])
       THEN LET roomId == socketRoomId[c]
                idx == gameRooms[roomId]
            IN  /\ heap' = [heap EXCEPT ![idx] = removeSpectator(@, c)]
                /\ timers' = Append(clearExistingTimer(c),
                                    [conn |-> c, roomId |-> roomId, room |-> idx,
                                     crossed |-> FALSE,
                                     restarted |-> clearExistingTimer(c) # timers])
                /\ disconnectTimers' = [disconnectTimers EXCEPT ![c] = TRUE]
       ELSE UNCHANGED << heap, timers, disconnectTimers >>
    /\ UNCHANGED << now, gameRooms, playerSessions, sessionOwner, socketRoomId,
                    sessionSweepDue, rateLimits >>

\* the room after the timer callback's if / else-if on the two seats
vacateSeat(room, c) ==
    IF room.players.white = c THEN [room EXCEPT !.players.white = None]
    ELSE IF room.players.black = c THEN [room EXCEPT !.players.black = None]
    ELSE room

\* the setTimeout callback of handleDisconnection, 30 s after it was armed.
\* Timers of one delay fire in arming order.  The callback works on the room
\* object its closure holds, which may have left gameRooms since.
graceTimerExpires ==
    /\ timers # << >>
    /\ LET t == Head(timers)
           room1 == vacateSeat(heap[t.room], t.conn)
       IN  /\ heap' = Collect([heap EXCEPT ![t.room] = room1], gameRooms, Tail(timers))
           /\ out' = << BroadcastTo(socketRooms, t.roomId, "playersUpdate",
                                    PlayersUpdate(room1)) >>
           /\ disconnectTimers' = [disconnectTimers EXCEPT ![t.conn] = FALSE]
           /\ timers' = Tail(timers)
    /\ UNCHANGED << now, gameRooms, playerSessions, sessionOwner, connected,
                    socketRoomId, socketRooms, sessionSweepDue, rateLimits >>

(* ------------------------------ reconnect ------------------------------ *)
\* sessionId && playerSessions[sessionId]
KnownSession(sessionId) ==
    /\ sessionId \in 1..Len(playerSessions)
    /\ playerSessions[sessionId] # NoSession

\* the occupancy test inverted: a taken seat is re-occupied, a free one is not
reconnectTakesSeatInverted(roomId, role) ==
    RoomExists(roomId) /\ ~SeatFree(RoomOf(roomId), role)

\* the occupancy test left out: the seat is re-occupied whoever holds it
reconnectTakesSeatUnchecked(roomId, role) == RoomExists(roomId)

\* "room && !room.players[role]": the reconnect re-occupies the seat
reconnectTakesSeat(roomId, role) ==
    RoomExists(roomId) /\ SeatFree(RoomOf(roomId), role)

\* a reconnect that tells the sender its session was not found
reconnectIgnoredAnswered(c) == << Unicast(c, "error", "Session not found") >>

\* what the handler emits when neither branch is taken: nothing
reconnectIgnored(c) == << >>

reconnect(c, sessionId) ==
    /\ connected[c]
    /\ IF KnownSession(sessionId) /\ RoomExists(playerSessions[sessionId].roomId)
       THEN LET roomId == playerSessions[sessionId].roomId
                role == playerSessions[sessionId].role
                idx == gameRooms[roomId]
                joined == [socketRooms EXCEPT ![c] = @ \cup {roomId}]
            IN  /\ socketRooms' = joined
                /\ socketRoomId' = [socketRoomId EXCEPT ![c] = roomId]
                /\ IF reconnectTakesSeat(roomId, role)
                   THEN LET room1 == [heap[idx] EXCEPT !.players[role] = c]
                        IN  /\ heap' = [heap EXCEPT ![idx] = room1]
                            /\ out' = RoomDelivery(c, room1, role)
                                 \o << BroadcastTo(joined, roomId, "playersUpdate",
                                                   PlayersUpdate(room1)) >>
                   ELSE LET room1 == [heap[idx] EXCEPT !.spectators = Append(@, c)]
                        IN  /\ Len(heap[idx].spectators) < MaxSpectators
                            /\ heap' = [heap EXCEPT ![idx] = room1]
                            /\ out' = RoomDelivery(c, room1, "spectator")
                                 \o << Unicast(c, "roleUnavailable", role),
                                       BroadcastTo(joined, roomId, "playersUpdate",
                                                   PlayersUpdate(room1)) >>
       ELSE /\ out' = reconnectIgnored(c)
            /\ UNCHANGED << heap, socketRooms, socketRoomId >>
    /\ UNCHANGED << now, gameRooms, playerSessions, sessionOwner, connected,
                    timers, disconnectTimers, sessionSweepDue, rateLimits >>

(* -------------------------------- move --------------------------------- *)
\* the turn check without its second return: black's turn is open to anyone
passesTurnCheckWhiteOnly(room, c) ==
    ~(ChessTurn(room.chess) = "w" /\ room.players.white # c)

\* the two early returns of the turn check: the move goes on to the engine
passesTurnCheck(room, c) ==
    /\ ~(ChessTurn(room.chess) = "w" /\ room.players.white # c)
    /\ ~(ChessTurn(room.chess) = "b" /\ room.players.black # c)

\* the engine method a 0.x name asks for, when the Chess class has it
ChessAnswers(method, chess, cond) ==
    method \in ChessMethods /\ cond \in ConditionsOf(chess.over)

\* winner of the gameEnd event of condition cond: for checkmate the side that
\* is not to move
gameEndWinner(chess, cond) ==
    IF cond = "checkmate"
    THEN (IF ChessTurn(chess) = "w" THEN "black" ELSE "white")
    ELSE "null"

\* the gameEnd broadcasts after an accepted move: the block is guarded by
\* "chess.game_over && chess.game_over()" and each branch by its own method
gameEndMessages(room, roomId) ==
    LET chess == room.chess
        ev(cond) == << BroadcastTo(socketRooms, roomId, "gameEnd",
                          [type |-> cond, winner |-> gameEndWinner(chess, cond)]) >>
    IN  IF ~("game_over" \in ChessMethods /\ ConditionsOf(chess.over) # {})
        THEN << >>
        ELSE IF ChessAnswers("in_checkmate", chess, "checkmate") THEN ev("checkmate")
        ELSE IF ChessAnswers("in_stalemate", chess, "stalemate") THEN ev("stalemate")
        ELSE IF ChessAnswers("in_threefold_repetition", chess, "threefold")
        THEN ev("threefold")
        ELSE IF ChessAnswers("insufficient_material", chess, "insufficient")
        THEN ev("insufficient")
        ELSE IF ChessAnswers("in_draw", chess, "draw") THEN ev("draw")
        ELSE << >>

\* the broadcasts of an accepted move in another order
moveBroadcastsHistoryFirst(room1, roomId, m) ==
    << BroadcastTo(socketRooms, roomId, "moveHistory", room1.moveHistory),
       BroadcastTo(socketRooms, roomId, "move", m),
       BroadcastTo(socketRooms, roomId, "boardState", ChessFen(room1.chess)) >>

\* the three broadcasts of an accepted move
moveBroadcasts(room1, roomId, m) ==
    << BroadcastTo(socketRooms, roomId, "move", m),
       BroadcastTo(socketRooms, roomId, "boardState", ChessFen(room1.chess)),
       BroadcastTo(socketRooms, roomId, "moveHistory", room1.moveHistory) >>

\* the entry room.moveHistory.push gets: result.san, result.color, the time
moveHistoryEntry(chess, m) ==
    [move |-> ResultSan(m), color |-> ChessTurn(chess), timestamp |-> now]

\* a refused move reported to nobody
moveRefusedSilent(c, m) == << >>

\* a move the engine refused: "if (!result)" and the catch block both emit
\* moveError to the submitter
moveRefused(c, m) == << Unicast(c, "moveError", m) >>

move(c, m, outcome) ==
    /\ connected[c]
    /\ IF socketRoomId[c] = NoRoomId \/ ~RoomExists(socketRoomId[c])
       THEN out' = << >> /\ UNCHANGED heap
       ELSE LET roomId == socketRoomId[c]
                idx == gameRooms[roomId]
                room == heap[idx]
            IN  IF ~passesTurnCheck(room, c)
                THEN out' = << >> /\ UNCHANGED heap
                ELSE IF outcome \in {"null", "throws"}
                THEN out' = moveRefused(c, m) /\ UNCHANGED heap
                ELSE LET room1 ==
                           [room EXCEPT
                              !.moveHistory =
                                  Append(@, moveHistoryEntry(room.chess, m)),
                              !.chess = ChessMoveOutcome(@, outcome)]
                     IN  /\ ChessHasLegalMove(room.chess)
                         /\ Len(room.moveHistory) < MaxMoves
                         /\ heap' = [heap EXCEPT ![idx] = room1]
                         /\ out' = moveBroadcasts(room1, roomId, m)
                                    \o gameEndMessages(room1, roomId)
    /\ UNCHANGED << now, gameRooms, playerSessions, sessionOwner, connected,
                    socketRoomId, socketRooms, timers, disconnectTimers,
                    sessionSweepDue, rateLimits >>

(* ------------------------------ resetGame ------------------------------ *)
\* the seat test left out: every connection of the room passes
IsPlayerUnchecked(room, c) == TRUE

\* socket.id === room.players.white || socket.id === room.players.black
IsPlayer(room, c) == c = room.players.white \/ c = room.players.black

\* a reset that forgets to clear the history
resetRoomKeepsHistory(room) == [room EXCEPT !.chess = NewChess]

\* a reset that forgets the position
resetRoomKeepsPosition(room) == [room EXCEPT !.moveHistory = << >>]

\* room.chess.reset(); room.moveHistory = []
resetRoom(room) == [room EXCEPT !.chess = NewChess, !.moveHistory = << >>]

resetGame(c) ==
    /\ connected[c]
    /\ IF socketRoomId[c] # NoRoomId /\ RoomExists(socketRoomId[c])
          /\ IsPlayer(RoomOf(socketRoomId[c]), c)
       THEN LET roomId == socketRoomId[c]
                idx == gameRooms[roomId]
                room1 == resetRoom(heap[idx])
            IN  /\ heap' = [heap EXCEPT ![idx] = room1]
                /\ out' = << BroadcastTo(socketRooms, roomId, "gameReset", None),
                             BroadcastTo(socketRooms, roomId, "boardState",
                                         ChessFen(room1.chess)),
                             BroadcastTo(socketRooms, roomId, "moveHistory",
                                         room1.moveHistory) >>
       ELSE out' = << >> /\ UNCHANGED heap
    /\ UNCHANGED << now, gameRooms, playerSessions, sessionOwner, connected,
                    socketRoomId, socketRooms, timers, disconnectTimers,
                    sessionSweepDue, rateLimits >>

(* -------------------------------- resign ------------------------------- *)
\* winner of a resignation by c: the if / else-if on the two seats
resignWinner(room, c) ==
    IF c = room.players.white THEN "black"
    ELSE IF c = room.players.black THEN "white"
    ELSE "null"

\* resigningPlayer of a resignation by c
resigningPlayer(room, c) ==
    IF c = room.players.white THEN "white"
    ELSE IF c = room.players.black THEN "black"
    ELSE "null"

resign(c) ==
    /\ connected[c]
    /\ IF socketRoomId[c] # NoRoomId /\ RoomExists(socketRoomId[c])
          /\ IsPlayer(RoomOf(socketRoomId[c]), c)
       THEN LET roomId == socketRoomId[c]
                room == RoomOf(roomId)
            IN  out' = << BroadcastTo(socketRooms, roomId, "gameEnd",
                            [type |-> "resignation",
                             winner |-> resignWinner(room, c),
                             resigningPlayer |-> resigningPlayer(room, c)]) >>
       ELSE out' = << >>
    /\ UNCHANGED << now, heap, gameRooms, playerSessions, sessionOwner, connected,
                    socketRoomId, socketRooms, timers, disconnectTimers,
                    sessionSweepDue, rateLimits >>

(* ----------------------------- chatMessage ----------------------------- *)
\* a limiter that admits one request more per window
checkRateLimitOffByOne(limit, t, maxRequests) ==
    \/ limit = NoLimit
    \/ t > limit.resetTime
    \/ limit.count <= maxRequests

\* checkRateLimit returns true: no entry yet, or the window is over, or the
\* count is below maxRequests
checkRateLimit(limit, t, maxRequests) ==
    \/ limit = NoLimit
    \/ t > limit.resetTime
    \/ limit.count < maxRequests

\* a limiter whose new window starts with a count of 0
checkRateLimitEntryResetZero(limit, t, maxRequests, windowMs) ==
    IF limit = NoLimit \/ t > limit.resetTime
    THEN [count |-> 0, resetTime |-> t + windowMs]
    ELSE IF limit.count >= maxRequests THEN limit
    ELSE [limit EXCEPT !.count = @ + 1]

\* the entry of the key after a call of checkRateLimit
checkRateLimitEntry(limit, t, maxRequests, windowMs) ==
    IF limit = NoLimit \/ t > limit.resetTime
    THEN [count |-> 1, resetTime |-> t + windowMs]
    ELSE IF limit.count >= maxRequests THEN limit
    ELSE [limit EXCEPT !.count = @ + 1]

\* the characters \s matches, of those a client sends here
WhiteSpace == {" ", "\t", "\n"}
\* the punctuation of the default allowedChars class
AllowedPunctuation == {"-", "_", ".", ",", "!", "?", "'", "\"", "(", ")"}
\* one character of /^[a-zA-Z0-9\s\-_.,!?'"()]*$/
allowedChar(ch) ==
    \/ \E i \in 1..Len(LowerCase) : LowerCase[i] = ch
    \/ \E i \in 1..Len(UpperCase) : UpperCase[i] = ch
    \/ ch \in Digits
    \/ ch \in WhiteSpace
    \/ ch \in AllowedPunctuation

\* String.prototype.trim
RECURSIVE trim(_)
trim(str) ==
    IF str = << >> THEN << >>
    ELSE IF Head(str) \in WhiteSpace THEN trim(Tail(str))
    ELSE IF str[Len(str)] \in WhiteSpace THEN trim(SubSeq(str, 1, Len(str) - 1))
    ELSE str

\* a validateInput that never tests the length of the trimmed input
validateInputNullLengthUnchecked(input, maxLength) ==
    \/ input = << >>
    \/ Len(trim(input)) = 0
    \/ \E i \in 1..Len(trim(input)) : ~allowedChar(trim(input)[i])

\* validateInput returns null
validateInputNull(input, maxLength) ==
    \/ input = << >>
    \/ Len(trim(input)) = 0
    \/ Len(trim(input)) > maxLength
    \/ \E i \in 1..Len(trim(input)) : ~allowedChar(trim(input)[i])

\* the string validateInput returns when it does not return null
validateInput(input, maxLength) == trim(input)

\* messages a client may send: plain, padded, with markup, empty, blank, and
\* one character longer than the cap
ChatInputs ==
    { << "h", "i" >>,
      << " ", "h", "i", " " >>,
      << "<", "b", ">", "h", "i" >>,
      << >>,
      << " " >>,
      [i \in 1..(ChatMaxLen + 1) |-> "a"] }

\* playerRole of a chat entry
chatPlayerRole(room, c) ==
    IF c = room.players.white THEN "white"
    ELSE IF c = room.players.black THEN "black"
    ELSE "spectator"

\* a history cut at its front: the newest entry is dropped
chatHistoryKeepOldest(history) ==
    IF Len(history) > ChatHistoryMax
    THEN SubSeq(history, 1, ChatHistoryMax)
    ELSE history

\* "if (length > 50) chatHistory = chatHistory.slice(-50)"
chatHistoryCapped(history) ==
    IF Len(history) > ChatHistoryMax
    THEN SubSeq(history, Len(history) - ChatHistoryMax + 1, Len(history))
    ELSE history

\* the sender test without the seats: every member may send
chatSenderAllowedAnyone(room, c) == TRUE

\* the sender holds a seat of the room
chatSenderAllowed(room, c) ==
    ~(c # room.players.white /\ c # room.players.black)

chatMessage(c, data) ==
    /\ connected[c]
    /\ IF socketRoomId[c] = NoRoomId \/ ~RoomExists(socketRoomId[c])
       THEN out' = << >> /\ UNCHANGED << heap, rateLimits >>
       ELSE IF ~checkRateLimit(rateLimits[c], now, ChatRateMax)
       THEN /\ out' = << Unicast(c, "chatError",
                                  "You are sending messages too quickly") >>
            /\ rateLimits' =
                  [rateLimits EXCEPT ![c] =
                      checkRateLimitEntry(@, now, ChatRateMax, ChatWindowMs)]
            /\ UNCHANGED heap
       ELSE LET roomId == socketRoomId[c]
                idx == gameRooms[roomId]
                room == heap[idx]
            IN  /\ rateLimits' =
                      [rateLimits EXCEPT ![c] =
                          checkRateLimitEntry(@, now, ChatRateMax, ChatWindowMs)]
                /\ IF ~chatSenderAllowed(room, c)
                   THEN /\ out' = << Unicast(c, "chatError",
                                              "Only players can send messages") >>
                        /\ UNCHANGED heap
                   ELSE IF validateInputNull(data, ChatMaxLen)
                   THEN /\ out' = << Unicast(c, "chatError",
                                              "Invalid message content") >>
                        /\ UNCHANGED heap
                   ELSE LET entry ==
                              [ message |-> validateInput(data, ChatMaxLen),
                                playerRole |-> chatPlayerRole(room, c),
                                timestamp |-> now,
                                socketId |-> c ]
                        IN  /\ heap' = [heap EXCEPT ![idx].chatHistory =
                                          chatHistoryCapped(Append(@, entry))]
                            /\ out' = << BroadcastTo(socketRooms, roomId,
                                                      "chatMessage", entry) >>
    /\ UNCHANGED << now, gameRooms, playerSessions, sessionOwner, connected,
                    socketRoomId, socketRooms, timers, disconnectTimers,
                    sessionSweepDue >>

(* ------------------------ offerDraw, respondToDraw ---------------------- *)
\* the seat c acts for in the if / else-if of the draw handlers
drawSeat(room, c) ==
    IF c = room.players.white THEN "white"
    ELSE IF c = room.players.black THEN "black"
    ELSE "none"

\* opponentId: the holder of the other seat, None when it is free
opponentId(room, c) ==
    IF c = room.players.white THEN room.players.black
    ELSE IF c = room.players.black THEN room.players.white
    ELSE None

\* the offer sent to the whole room
drawOfferBroadcast(room, c) ==
    BroadcastTo(socketRooms, socketRoomId[c], "drawOfferReceived",
                [from |-> drawSeat(room, c)])

\* io.to(opponentId).emit('drawOfferReceived', { from: offeringPlayer })
drawOfferReceived(room, c) ==
    EmitToSocket(opponentId(room, c), "drawOfferReceived",
                 [from |-> drawSeat(room, c)])

offerDraw(c) ==
    /\ connected[c]
    /\ IF socketRoomId[c] = NoRoomId \/ ~RoomExists(socketRoomId[c])
       THEN out' = << >>
       ELSE LET room == RoomOf(socketRoomId[c])
            IN  IF drawSeat(room, c) = "none"
                THEN out' = << >>
                ELSE IF opponentId(room, c) = None
                THEN out' = << Unicast(c, "drawOfferError",
                                       "No opponent to offer draw to") >>
                ELSE out' = << drawOfferReceived(room, c),
                               Unicast(c, "drawOfferSent", None) >>
    /\ UNCHANGED << now, heap, gameRooms, playerSessions, sessionOwner, connected,
                    socketRoomId, socketRooms, timers, disconnectTimers,
                    sessionSweepDue, rateLimits >>

\* the gameEnd broadcast of an accepted draw
drawAgreement(roomId) ==
    BroadcastTo(socketRooms, roomId, "gameEnd",
                [type |-> "draw_agreement", winner |-> "null"])

respondToDraw(c, accepted) ==
    /\ connected[c]
    /\ IF socketRoomId[c] = NoRoomId \/ ~RoomExists(socketRoomId[c])
       THEN out' = << >>
       ELSE LET room == RoomOf(socketRoomId[c])
            IN  IF drawSeat(room, c) = "none"
                THEN out' = << >>
                ELSE IF accepted
                THEN out' = << drawAgreement(socketRoomId[c]) >>
                ELSE IF opponentId(room, c) # None
                THEN out' = << EmitToSocket(opponentId(room, c), "drawOfferDeclined",
                                            [by |-> drawSeat(room, c)]) >>
                ELSE out' = << >>
    /\ UNCHANGED << now, heap, gameRooms, playerSessions, sessionOwner, connected,
                    socketRoomId, socketRooms, timers, disconnectTimers,
                    sessionSweepDue, rateLimits >>

(* ------------------------ messages without payload -------------------- *)
(* A client may emit an event with no argument (or with null).  socket.io   *)
(* calls the listener as it is, and the server installs no handler for      *)
(* uncaught exceptions, so a TypeError thrown by a listener ends the        *)
(* process: the registries are gone and every connection is closed.         *)
uncaughtException ==
    /\ heap' = << >>
    /\ gameRooms' = [id \in ValidRoomIds |-> None]
    /\ playerSessions' = << >>
    /\ sessionOwner' = << >>
    /\ connected' = [c \in Conns |-> FALSE]
    /\ socketRoomId' = [c \in Conns |-> NoRoomId]
    /\ socketRooms' = [c \in Conns |-> {}]
    /\ timers' = << >>
    /\ disconnectTimers' = [c \in Conns |-> FALSE]
    /\ sessionSweepDue' = FALSE
    /\ rateLimits' = [c \in Conns |-> NoLimit]
    /\ out' = << >>
    /\ UNCHANGED now

\* joinRoom with no payload: the parameter pattern { roomId, preferredRole }
\* is matched against undefined before the first statement
joinRoomNoPayload(c) ==
    /\ connected[c]
    /\ uncaughtException

\* the chatMessage handler gets as far as data.message
chatReadsPayload(c) ==
    /\ socketRoomId[c] # NoRoomId
    /\ RoomExists(socketRoomId[c])
    /\ checkRateLimit(rateLimits[c], now, ChatRateMax)
    /\ chatSenderAllowed(RoomOf(socketRoomId[c]), c)

\* chatMessage with no payload: the returns before data.message is read do
\* not depend on data
chatMessageNoPayload(c) ==
    /\ connected[c]
    /\ IF chatReadsPayload(c) THEN uncaughtException
       ELSE chatMessage(c, << >>)

\* the respondToDraw handler gets as far as response.accepted
respondReadsPayload(c) ==
    /\ socketRoomId[c] # NoRoomId
    /\ RoomExists(socketRoomId[c])
    /\ drawSeat(RoomOf(socketRoomId[c]), c) # "none"

\* respondToDraw with no payload
respondToDrawNoPayload(c) ==
    /\ connected[c]
    /\ IF respondReadsPayload(c) THEN uncaughtException
       ELSE respondToDraw(c, FALSE)

(* ------------------------------- sweeps -------------------------------- *)
\* a sweep that also removes a room idle for exactly the threshold
IsInactiveAtThreshold(room, t) == t - room.lastActivity >= InactivityThresholdMs

\* now - room.lastActivity > inactivityThreshold, at the instant t
IsInactive(room, t) == t - room.lastActivity > InactivityThresholdMs

\* the first sweep instant after t
NextSweepInstant(t) == ((t \div SweepIntervalMs) + 1) * SweepIntervalMs

\* the clock moves on by d milliseconds without reaching a sweep instant
timePasses(d) ==
    /\ d > 0
    /\ now + d < NextSweepInstant(now)
    /\ now' = now + d
    /\ out' = << >>
    /\ UNCHANGED << heap, gameRooms, playerSessions, sessionOwner, connected,
                    socketRoomId, socketRooms, timers, disconnectTimers,
                    sessionSweepDue, rateLimits >>

\* the idle-room sweep (setInterval, every 30 min): the clock reaches the next
\* sweep instant and every inactive room leaves gameRooms.  A grace timer is
\* 30 s long, so none is pending over two sweep instants.
sweepInactiveRooms ==
    /\ now < MaxSweeps * SweepIntervalMs
    /\ GracePeriodMs < SweepIntervalMs
    /\ \A i \in 1..Len(timers) : ~timers[i].crossed
    /\ ~sessionSweepDue
    /\ now' = NextSweepInstant(now)
    /\ gameRooms' =
         [id \in ValidRoomIds |->
            IF gameRooms[id] # None /\ IsInactive(heap[gameRooms[id]], now')
            THEN None ELSE gameRooms[id]]
    /\ timers' = [i \in 1..Len(timers) |-> [timers[i] EXCEPT !.crossed = TRUE]]
    /\ sessionSweepDue' = TRUE
    /\ out' = << >>
    /\ heap' = Collect(heap, gameRooms', timers)
    /\ UNCHANGED << playerSessions, sessionOwner, connected, socketRoomId,
                    socketRooms, disconnectTimers, rateLimits >>

\* the session sweep (setInterval, every 30 min, armed right after the room
\* sweep): every session whose room id has no room is deleted
sweepSessions ==
    /\ sessionSweepDue
    /\ sessionSweepDue' = FALSE
    /\ playerSessions' =
         [t \in 1..Len(playerSessions) |->
            IF playerSessions[t] # NoSession
               /\ gameRooms[playerSessions[t].roomId] = None
            THEN NoSession ELSE playerSessions[t]]
    /\ out' = << >>
    /\ UNCHANGED << now, heap, gameRooms, sessionOwner, connected, socketRoomId,
                    socketRooms, timers, disconnectTimers, rateLimits >>

\* session tokens a client may send: every token ever issued, and None for a
\* missing or unknown one
SessionInputs == 0..MaxTokens

Next ==
    \/ \E c \in Conns, roomId \in RoomIdInputs, r \in RoleInputs :
          joinRoom(c, roomId, r)
    \/ \E c \in Conns, s \in SessionInputs : reconnect(c, s)
    \/ \E c \in Conns : disconnect(c)
    \/ graceTimerExpires
    \/ \E c \in Conns, m \in MoveInputs, o \in MoveOutcomes \cup TerminalOutcomes :
          move(c, m, o)
    \/ \E c \in Conns : resetGame(c)
    \/ \E c \in Conns : resign(c)
    \/ \E c \in Conns, data \in ChatInputs : chatMessage(c, data)
    \/ \E c \in Conns : offerDraw(c)
    \/ \E c \in Conns, accepted \in BOOLEAN : respondToDraw(c, accepted)
    \/ \E c \in Conns : joinRoomNoPayload(c)
    \/ \E c \in Conns : chatMessageNoPayload(c)
    \/ \E c \in Conns : respondToDrawNoPayload(c)
    \/ \E d \in {ChatTickMs} : timePasses(d)
    \/ sweepInactiveRooms
    \/ sweepSessions

Spec == Init /\ [][Next]_vars

(* ------------------------------ slices --------------------------------- *)
(* Spec is the whole coordinator.  A property of a part of it is checked    *)
(* under the specification of that part: the handlers that write or read    *)
(* the state the property is about, with every client sending the one valid *)
(* room id below or an invalid one.                                         *)
OneRoomInputs == { <<"T","E","S","T","-","1">>, <<"a","b","c">>, <<"b","a","d","!">> }

\* the seat protocol: seats, spectators, sessions and grace timers
NextSeats ==
    \/ \E c \in Active, roomId \in OneRoomInputs, r \in RoleInputs :
          joinRoom(c, roomId, r)
    \/ \E c \in Active, s \in SessionInputs : reconnect(c, s)
    \/ \E c \in Active : disconnect(c)
    \/ graceTimerExpires

SpecSeats == Init /\ [][NextSeats]_vars

\* the game of one room: who may move, and what a move and a reset do
NextMoves ==
    \/ \E c \in Active, roomId \in OneRoomInputs, r \in RoleInputs :
          joinRoom(c, roomId, r)
    \/ \E c \in Active : disconnect(c)
    \/ graceTimerExpires
    \/ \E c \in Active, m \in MoveInputs, o \in MoveOutcomes : move(c, m, o)
    \/ \E c \in Active : resetGame(c)
    \/ \E c \in Active : resign(c)

SpecMoves == Init /\ [][NextMoves]_vars

\* joining one room: every connection, and moves so that a later joiner is
\* handed a game in progress
NextJoin ==
    \/ \E c \in Conns, roomId \in OneRoomInputs, r \in RoleInputs :
          joinRoom(c, roomId, r)
    \/ \E m \in MoveInputs : move(1, m, "accepted")

SpecJoin == Init /\ [][NextJoin]_vars

\* joining with every room id a client may send
NextJoinIds ==
    \E c \in Active, roomId \in RoomIdInputs, r \in RoleInputs :
        joinRoom(c, roomId, r)

SpecJoinIds == Init /\ [][NextJoinIds]_vars

\* the room of c's socket.roomId exists and its chatHistory is shorter than n
ChatShorterThan(c, n) ==
    /\ socketRoomId[c] # NoRoomId
    /\ RoomExists(socketRoomId[c])
    /\ Len(RoomOf(socketRoomId[c]).chatHistory) < n

\* the chat of one room with one player and one spectator, over the first
\* ChatHorizonMs of the clock and the first MaxChat accepted messages
NextChat ==
    \/ joinRoom(1, <<"T","E","S","T","-","1">>, "white")
    \/ joinRoom(2, <<"T","E","S","T","-","1">>, "spectator")
    \/ \E c \in Active, data \in ChatInputs :
          (socketRoomId[c] # NoRoomId => ChatShorterThan(c, MaxChat))
          /\ chatMessage(c, data)
    \/ now < ChatHorizonMs /\ timePasses(ChatTickMs)

SpecChat == Init /\ [][NextChat]_vars

\* connection c has used up its chat window
ChatWindowUsedUp(c) ==
    /\ rateLimits[c] # NoLimit
    /\ rateLimits[c].count >= ChatRateMax
    /\ now <= rateLimits[c].resetTime

\* a long chat: one player sends as fast as the limiter allows, and the clock
\* moves past the window whenever the player has used it up
NextChatLong ==
    \/ joinRoom(1, <<"T","E","S","T","-","1">>, "white")
    \/ chatMessage(1, << "h", "i" >>)
    \/ ChatWindowUsedUp(1) /\ timePasses(2 * ChatTickMs)

SpecChatLong == Init /\ [][NextChatLong]_vars

\* draw offers: three connections in one room, and disconnects
NextDraw ==
    \/ \E c \in Conns, r \in RoleInputs :
          joinRoom(c, <<"T","E","S","T","-","1">>, r)
    \/ \E c \in Conns : disconnect(c)
    \/ \E c \in Conns : offerDraw(c)
    \/ \E c \in Conns, accepted \in BOOLEAN : respondToDraw(c, accepted)

SpecDraw == Init /\ [][NextDraw]_vars

\* answers to draw offers in a room where nobody ever offers a draw
NextRespond ==
    \/ \E c \in Conns, r \in RoleInputs :
          joinRoom(c, <<"T","E","S","T","-","1">>, r)
    \/ \E c \in Conns : disconnect(c)
    \/ \E c \in Conns, accepted \in BOOLEAN : respondToDraw(c, accepted)

SpecRespond == Init /\ [][NextRespond]_vars

\* the end of a game: moves that leave a terminal position
NextEnd ==
    \/ \E c \in Active, r \in RoleInputs :
          joinRoom(c, <<"T","E","S","T","-","1">>, r)
    \/ \E c \in Active, m \in MoveInputs, o \in MoveOutcomes \cup TerminalOutcomes :
          move(c, m, o)
    \/ \E c \in Active : resetGame(c)

SpecEnd == Init /\ [][NextEnd]_vars

\* the life of a room: joins for a seat, reconnects, and the moves and chat
\* of one connection, between the idle sweeps and the session sweeps
SweepRoomInputs == { <<"T","E","S","T","-","1">>, <<"a","b","c">> }
SweepRoleInputs == Seats \cup {"undefined"}
NextSweep ==
    \/ \E c \in Active, roomId \in SweepRoomInputs, r \in SweepRoleInputs :
          joinRoom(c, roomId, r)
    \/ \E c \in Active, s \in SessionInputs : reconnect(c, s)
    \/ \E m \in MoveInputs : move(1, m, "accepted")
    \/ (socketRoomId[1] # NoRoomId => ChatShorterThan(1, MaxSweepChat))
          /\ chatMessage(1, << "h", "i" >>)
    \/ sweepInactiveRooms
    \/ sweepSessions

SpecSweep == Init /\ [][NextSweep]_vars

\* every kind of message in one room, with and without its payload
FatalChatInputs == { << "h", "i" >>, << "<", "b", ">", "h", "i" >> }
NextFatal ==
    \/ \E c \in Active, roomId \in SweepRoomInputs, r \in RoleInputs :
          joinRoom(c, roomId, r)
    \/ \E c \in Active : reconnect(c, None)
    \/ \E c \in Active, m \in MoveInputs, o \in MoveOutcomes : move(c, m, o)
    \/ \E c \in Active, data \in FatalChatInputs :
          (socketRoomId[c] # NoRoomId => ChatShorterThan(c, MaxSweepChat))
          /\ chatMessage(c, data)
    \/ \E c \in Active : resetGame(c)
    \/ \E c \in Active : resign(c)
    \/ \E c \in Active : offerDraw(c)
    \/ \E c \in Active, accepted \in BOOLEAN : respondToDraw(c, accepted)
    \/ \E c \in Active : joinRoomNoPayload(c)
    \/ \E c \in Active : chatMessageNoPayload(c)
    \/ \E c \in Active : respondToDrawNoPayload(c)

SpecFatal == Init /\ [][NextFatal]_vars

\* the registry: two rooms created at different times, every kind of message
\* of their white players, and the sweeps
LifeRoomInputs == { <<"T","E","S","T","-","1">>, <<"r","o","o","m">>, <<"a","b","c">> }
LifeRoleInputs == {"white", "undefined"}
NextLife ==
    \/ \E r \in LifeRoleInputs : joinRoom(1, <<"T","E","S","T","-","1">>, r)
    \/ \E roomId \in LifeRoomInputs : joinRoom(2, roomId, "white")
    \/ \E s \in SessionInputs : reconnect(2, s)
    \/ \E m \in MoveInputs : move(1, m, "accepted")
    \/ (socketRoomId[1] # NoRoomId => ChatShorterThan(1, MaxSweepChat))
          /\ chatMessage(1, << "h", "i" >>)
    \/ resetGame(1)
    \/ resign(1)
    \/ respondToDraw(1, TRUE)
    \/ disconnect(2)
    \/ graceTimerExpires
    \/ sweepInactiveRooms
    \/ sweepSessions

SpecLife == Init /\ [][NextLife]_vars

(* ============================== properties ============================= *)
\* the seat that moves when the position's side to move is turn
TurnSeat(turn) == IF turn = "w" THEN "white" ELSE "black"
\* the pending grace timers of connection c
TimersOf(c) == { k \in 1..Len(timers) : timers[k].conn = c }
\* out holds a message ev whose body is body
Emitted(seq, ev, body) ==
    \E i \in 1..Len(seq) : seq[i].ev = ev /\ seq[i].body = body
\* the event names of a sequence of messages, in order
EventsOf(seq) == [i \in 1..Len(seq) |-> seq[i].ev]

(* ---------------------------------------------------------------------- *)
\* C1: a held seat of a room in the registry never passes to another
\* connection: in every step a seat that has a holder keeps it, except in the
\* step in which the holder's own grace timer expires, which empties it.
C1_SeatExclusive ==
    [][ \A id \in ValidRoomIds, seat \in Seats :
          (RoomExists(id) /\ gameRooms'[id] = gameRooms[id]
             /\ RoomOf(id).players[seat] # None)
          => \/ heap'[gameRooms[id]].players[seat] = RoomOf(id).players[seat]
             \/ /\ heap'[gameRooms[id]].players[seat] = None
                /\ graceTimerExpires
                /\ Head(timers).conn = RoomOf(id).players[seat] ]_vars

\* a joinRoom for a seat that another connection holds has just run and the
\* holder is still there
C1_Witness ==
    \E id \in ValidRoomIds, seat \in Seats :
        /\ RoomExists(id)
        /\ Len(out) > 0 /\ out[1].ev = "roleUnavailable" /\ out[1].body = seat
        /\ RoomOf(id).players[seat] # None
        /\ RoomOf(id).players[seat] \notin out[1].to

(* ---------------------------------------------------------------------- *)
\* the slots connection c occupies in the rooms of the registry: the seats
\* it holds, and the positions it has in spectators lists
SeatsOf(c) ==
    { <<id, seat>> \in ValidRoomIds \X Seats :
          RoomExists(id) /\ RoomOf(id).players[seat] = c }
SpectatorEntriesOf(c) ==
    { <<id, k>> \in ValidRoomIds \X (1..MaxSpectators + 1) :
          RoomExists(id) /\ k <= Len(RoomOf(id).spectators)
             /\ RoomOf(id).spectators[k] = c }

\* C2: a connection occupies at most one slot in the whole registry: not two
\* seats, not a seat and a spectator entry, not two spectator entries, not
\* slots of two rooms.
C2_OneSlotPerConnection ==
    \A c \in Conns :
        Cardinality(SeatsOf(c)) + Cardinality(SpectatorEntriesOf(c)) <= 1

(* ---------------------------------------------------------------------- *)
\* the room of c's socket.roomId exists and c holds the seat of its side to move
HoldsTurnSeat(c) ==
    /\ socketRoomId[c] # NoRoomId
    /\ RoomExists(socketRoomId[c])
    /\ LET room == RoomOf(socketRoomId[c])
       IN  room.players[TurnSeat(ChessTurn(room.chess))] = c

\* C3: a move submitted by a connection changes a position or a moveHistory
\* only if the connection's room exists and the connection holds the seat of
\* the side to move; from any other connection it changes neither.
C3_MoveOnlyFromTurnSeat ==
    [][ \A c \in Conns, m \in MoveInputs, o \in MoveOutcomes :
          (move(c, m, o) /\ ~HoldsTurnSeat(c)) => heap' = heap ]_vars

\* a move has just been accepted and broadcast
C3_Witness ==
    /\ Len(out) >= 3
    /\ out[1].ev = "move"
    /\ out[3].ev = "moveHistory" /\ Len(out[3].body) >= 1

(* ---------------------------------------------------------------------- *)
\* the colour of the i-th move of a game
PlyColor(i) == IF i % 2 = 1 THEN "w" ELSE "b"

\* a step that lengthens a moveHistory appends one entry, of the colour that
\* was to move, on behalf of the open connection holding that colour's seat,
\* and hands the move to the other colour
OneMovePerTurn ==
    \A i \in 1..Len(heap) :
        Len(heap'[i].moveHistory) > Len(heap[i].moveHistory)
        => LET turn == ChessTurn(heap[i].chess)
               holder == heap[i].players[TurnSeat(turn)]
           IN  /\ heap'[i].moveHistory =
                     Append(heap[i].moveHistory,
                            heap'[i].moveHistory[Len(heap'[i].moveHistory)])
               /\ heap'[i].moveHistory[Len(heap'[i].moveHistory)].color = turn
               /\ ChessTurn(heap'[i].chess) # turn
               /\ holder # None /\ connected[holder]
               /\ \E id \in ValidRoomIds :
                      gameRooms[id] = i /\ socketRoomId[holder] = id

\* in every room the colours of moveHistory alternate from "w" and the side
\* to move is the one that follows the last entry
AlternatingColors ==
    \A i \in 1..Len(heap) :
        /\ \A k \in 1..Len(heap[i].moveHistory) :
               heap[i].moveHistory[k].color = PlyColor(k)
        /\ ChessTurn(heap[i].chess) = PlyColor(Len(heap[i].moveHistory) + 1)

\* C4: the turn check and the mutation are one step, so no two moves are
\* accepted for one turn: every accepted move is the one move of the seat
\* holder whose turn it is and flips the side to move, and the colours of
\* moveHistory alternate starting with "w" after creation or reset.
C4_AlternatingColors == []AlternatingColors /\ [][OneMovePerTurn]_vars

\* white moved, then black moved: two entries, white to move again
C4_Witness ==
    \E i \in 1..Len(heap) :
        /\ Len(heap[i].moveHistory) = 2
        /\ heap[i].moveHistory[1].color = "w"
        /\ heap[i].moveHistory[2].color = "b"
        /\ ChessTurn(heap[i].chess) = "w"

(* ---------------------------------------------------------------------- *)
\* token t is known, its room exists, and its seat is held by the connection
\* the token was issued to, which has disconnected and whose grace timer for
\* that room has not expired
InGrace(t) ==
    /\ KnownSession(t)
    /\ RoomExists(playerSessions[t].roomId)
    /\ LET room == RoomOf(playerSessions[t].roomId)
           holder == room.players[playerSessions[t].role]
       IN  /\ holder # None
           /\ holder = sessionOwner[t]
           /\ ~connected[holder]
           /\ \E k \in TimersOf(holder) :
                  timers[k].room = gameRooms[playerSessions[t].roomId]

\* C5: a seated player who disconnects and reconnects with their token before
\* the grace period expires keeps the seat: the reconnecting connection is
\* given the token's role, not spectator, and no playersUpdate of that step
\* shows the seat as waiting.
C5_ReconnectInGraceKeepsRole ==
    [][ \A d \in Conns, t \in Tokens :
          (reconnect(d, t) /\ InGrace(t))
          => /\ Emitted(out', "roleAssigned", playerSessions[t].role)
             /\ ~Emitted(out', "roleAssigned", "spectator")
             /\ \A i \in 1..Len(out') :
                    out'[i].ev = "playersUpdate"
                    => out'[i].body[playerSessions[t].role] = "connected" ]_vars

(* ---------------------------------------------------------------------- *)
\* a firing grace timer leaves every seat that another connection holds
TimerVacatesOwnSeatOnly ==
    graceTimerExpires
    => \A i \in 1..Len(heap), seat \in Seats :
           (heap[i].players[seat] # None
              /\ heap[i].players[seat] # Head(timers).conn)
           => heap'[i].players[seat] = heap[i].players[seat]

\* a reconnect with a token whose seat holder is in its grace period cancels
\* the holder's pending timer
ReconnectCancelsTimer ==
    \A d \in Conns, t \in Tokens :
        (reconnect(d, t) /\ InGrace(t))
        => LET holder == RoomOf(playerSessions[t].roomId).players[playerSessions[t].role]
           IN  \A k \in 1..Len(timers') : timers'[k].conn # holder

\* C6: vacating by the grace timer and re-occupying by reconnect exclude each
\* other on a seat: a reconnect before expiry cancels the pending timer, and a
\* firing timer never vacates a seat held by a connection other than the one
\* whose disconnect armed it.
C6_ReconnectAndTimerExclusive ==
    [][ ReconnectCancelsTimer /\ TimerVacatesOwnSeatOnly ]_vars

\* the second half of C6 alone
C6_TimerVacatesOwnSeatOnly == [][ TimerVacatesOwnSeatOnly ]_vars

(* ---------------------------------------------------------------------- *)
\* C7: reconnect with a known token whose room exists and whose seat is free
\* gives the seat to the reconnecting connection under the token's role,
\* unicasts roleAssigned(role), boardState, moveHistory and chatHistory to it,
\* and then broadcasts playersUpdate to the room.
C7_ReconnectReoccupies ==
    [][ \A d \in Conns, t \in Tokens :
          (reconnect(d, t) /\ KnownSession(t)
             /\ RoomExists(playerSessions[t].roomId)
             /\ SeatFree(RoomOf(playerSessions[t].roomId), playerSessions[t].role))
          => LET roomId == playerSessions[t].roomId
                 role == playerSessions[t].role
                 room1 == heap'[gameRooms[roomId]]
             IN  /\ room1.players[role] = d
                 /\ room1.spectators = RoomOf(roomId).spectators
                 /\ socketRoomId'[d] = roomId
                 /\ EventsOf(out') = << "roleAssigned", "boardState", "moveHistory",
                                        "chatHistory", "playersUpdate" >>
                 /\ \A i \in 1..4 : out'[i].to = {d}
                 /\ out'[1].body = role
                 /\ out'[2].body = ChessFen(room1.chess)
                 /\ out'[3].body = room1.moveHistory
                 /\ out'[4].body = room1.chatHistory
                 /\ out'[5].room = roomId /\ d \in out'[5].to
                 /\ out'[5].body = PlayersUpdate(room1)
                 /\ out'[5].body[role] = "connected" ]_vars

\* a reconnect has just re-occupied a seat that a grace timer had vacated
C7_Witness ==
    /\ Len(out) = 5
    /\ out[1].ev = "roleAssigned" /\ out[1].body \in Seats
    /\ \E id \in ValidRoomIds, d \in Conns :
           /\ RoomExists(id)
           /\ out[1].to = {d}
           /\ RoomOf(id).players[out[1].body] = d
           /\ \E t \in 1..Len(sessionOwner) : sessionOwner[t] # d

(* ---------------------------------------------------------------------- *)
\* C8: reconnect with a known token whose room exists and whose seat another
\* connection holds appends the reconnecting connection to spectators, assigns
\* it "spectator", leaves both seats as they were, and sends exactly one
\* roleUnavailable, naming the token's role, to that connection alone.
C8_ReconnectFallsBackToSpectator ==
    [][ \A d \in Conns, t \in Tokens :
          (reconnect(d, t) /\ KnownSession(t)
             /\ RoomExists(playerSessions[t].roomId)
             /\ RoomOf(playerSessions[t].roomId).players[playerSessions[t].role]
                   \notin {None, d})
          => LET roomId == playerSessions[t].roomId
                 role == playerSessions[t].role
                 room0 == RoomOf(roomId)
                 room1 == heap'[gameRooms[roomId]]
                 notices == { i \in 1..Len(out') : out'[i].ev = "roleUnavailable" }
             IN  /\ room1.players = room0.players
                 /\ room1.spectators = Append(room0.spectators, d)
                 /\ Emitted(out', "roleAssigned", "spectator")
                 /\ \A i \in 1..Len(out') :
                        out'[i].ev = "roleAssigned" => out'[i].to = {d}
                 /\ Cardinality(notices) = 1
                 /\ \A i \in notices : out'[i].to = {d} /\ out'[i].body = role ]_vars

\* a reconnect has just fallen back to spectator while another connection
\* holds the token's seat
C8_Witness ==
    /\ Len(out) = 6
    /\ out[5].ev = "roleUnavailable"
    /\ \E id \in ValidRoomIds, d \in Conns :
           /\ RoomExists(id)
           /\ out[5].to = {d}
           /\ RoomOf(id).players[out[5].body] \notin {None, d}
           /\ RoomOf(id).spectators # << >>
           /\ RoomOf(id).spectators[Len(RoomOf(id).spectators)] = d

(* ---------------------------------------------------------------------- *)
\* the disconnect of a connection whose room exists takes it out of the
\* room's spectators at once, leaves the seats as they were and arms its
\* grace timer
DisconnectKeepsSeat ==
    \A c \in Conns :
        (disconnect(c) /\ socketRoomId[c] # NoRoomId /\ RoomExists(socketRoomId[c]))
        => LET idx == gameRooms[socketRoomId[c]]
           IN  /\ \A k \in 1..Len(heap'[idx].spectators) :
                      heap'[idx].spectators[k] # c
               /\ heap'[idx].players = heap[idx].players
               /\ \E k \in 1..Len(timers') :
                      timers'[k].conn = c /\ timers'[k].room = idx

\* the grace timer that expires vacates every seat of its room that its
\* connection holds, and its playersUpdate reports each of them as waiting
ExpiryVacatesSeat ==
    graceTimerExpires
    => LET t == Head(timers)
       IN  \A seat \in Seats :
               heap[t.room].players[seat] = t.conn
               => /\ heap'[t.room].players[seat] = None
                  /\ Len(out') = 1 /\ out'[1].ev = "playersUpdate"
                  /\ out'[1].room = t.roomId
                  /\ out'[1].body[seat] = "waiting"

\* C9: disconnect state machine.  On disconnect of a connection whose room
\* exists the connection leaves spectators at once while a seat it holds stays
\* occupied through the grace period; when the timer expires un-cancelled the
\* seat is vacated and a playersUpdate reporting it as waiting is broadcast.
C9_DisconnectStateMachine ==
    [][ DisconnectKeepsSeat /\ ExpiryVacatesSeat ]_vars

(* ---------------------------------------------------------------------- *)
\* C10: a repeated disconnect of a connection cancels its pending grace timer
\* before arming the new one: at most one grace timer is pending per
\* connection at any time, and it is the one disconnectTimers records.
C10_OneTimerPerConnection ==
    \A c \in Conns :
        /\ Cardinality(TimersOf(c)) <= 1
        /\ disconnectTimers[c] <=> TimersOf(c) # {}

\* a disconnect has cancelled the timer of an earlier disconnect and armed a
\* new one
C10_Witness ==
    \E k \in 1..Len(timers) :
        timers[k].restarted /\ TimersOf(timers[k].conn) = {k}

(* ---------------------------------------------------------------------- *)
\* the messages of seq whose event is ev
IndexesOf(seq, ev) == { i \in 1..Len(seq) : seq[i].ev = ev }

\* C11: a legal move by the holder of the seat of the side to move appends
\* exactly one entry (notation, colour of the mover, timestamp) to moveHistory
\* and broadcasts to every connection in the room, in this order, the raw
\* move, the updated boardState and the updated moveHistory.
C11_AcceptedMoveBroadcast ==
    [][ \A c \in Conns, m \in MoveInputs :
          (move(c, m, "accepted") /\ HoldsTurnSeat(c))
          => LET roomId == socketRoomId[c]
                 room0 == RoomOf(roomId)
                 room1 == heap'[gameRooms[roomId]]
                 n == Len(room0.moveHistory)
             IN  /\ Len(room1.moveHistory) = n + 1
                 /\ SubSeq(room1.moveHistory, 1, n) = room0.moveHistory
                 /\ room1.moveHistory[n + 1] =
                        [move |-> ResultSan(m), color |-> ChessTurn(room0.chess),
                         timestamp |-> now]
                 /\ Len(out') >= 3
                 /\ SubSeq(EventsOf(out'), 1, 3) = << "move", "boardState", "moveHistory" >>
                 /\ out'[1].body = m
                 /\ out'[2].body = ChessFen(room1.chess)
                 /\ out'[3].body = room1.moveHistory
                 /\ \A i \in 1..3 :
                        /\ out'[i].room = roomId
                        /\ out'[i].to = Members(roomId)
                        /\ c \in out'[i].to ]_vars

\* an accepted move has just been broadcast to a room of two connections
C11_Witness ==
    /\ Len(out) = 3
    /\ EventsOf(out) = << "move", "boardState", "moveHistory" >>
    /\ Cardinality(out[1].to) = 2
    /\ out[3].body[Len(out[3].body)].move = "e4"

(* ---------------------------------------------------------------------- *)
\* the room of c's socket.roomId exists, c holds the seat of the side that is
\* not to move, and does not hold the seat of the side to move
SeatedOffTurn(c) ==
    /\ socketRoomId[c] # NoRoomId
    /\ RoomExists(socketRoomId[c])
    /\ LET room == RoomOf(socketRoomId[c])
           turnSeat == TurnSeat(ChessTurn(room.chess))
       IN  /\ room.players[turnSeat] # c
           /\ \E seat \in Seats \ {turnSeat} : room.players[seat] = c

\* C12: a move submitted by the seated player whose turn it is not is
\* rejected: position and moveHistory are unchanged, nothing is broadcast to
\* the room, and exactly the submitter receives a unicast moveError.
C12_OffTurnMoveError ==
    [][ \A c \in Conns, m \in MoveInputs, o \in MoveOutcomes :
          (move(c, m, o) /\ SeatedOffTurn(c))
          => /\ heap' = heap
             /\ out' = << Unicast(c, "moveError", m) >> ]_vars

(* ---------------------------------------------------------------------- *)
\* C13: a move by the holder of the seat of the side to move that the engine
\* rejects (it returns no result, or throws) leaves position and moveHistory
\* unchanged, sends moveError to the submitter alone and no move, boardState,
\* moveHistory or gameEnd broadcast; the handler completes.
C13_RejectedMoveError ==
    [][ \A c \in Conns, m \in MoveInputs, o \in {"null", "throws"} :
          (move(c, m, o) /\ HoldsTurnSeat(c))
          => /\ heap' = heap
             /\ Len(out') = 1
             /\ out'[1].ev = "moveError" /\ out'[1].body = m
             /\ out'[1].to = {c} /\ out'[1].room = NoRoomId ]_vars

\* the engine has just refused a move of the seat holder to move, in a room
\* with a second connection
C13_Witness ==
    /\ Len(out) = 1 /\ out[1].ev = "moveError"
    /\ \E c \in Conns :
           /\ out[1].to = {c}
           /\ HoldsTurnSeat(c)
           /\ Cardinality(Members(socketRoomId[c])) = 2

(* ---------------------------------------------------------------------- *)
\* the engine's count of the moves made since new Chess() or reset() equals
\* the length of moveHistory, in every room of the registry
HistoryCountsMoves ==
    \A id \in ValidRoomIds :
        RoomExists(id) => Len(RoomOf(id).moveHistory) = RoomOf(id).chess.ply

\* a moveHistory grows only by one entry and only in the step of an accepted
\* move, and shrinks only in a resetGame step
HistoryAppendOnly ==
    \A id \in ValidRoomIds :
        (RoomExists(id) /\ gameRooms'[id] = gameRooms[id])
        => LET h0 == RoomOf(id).moveHistory
               h1 == heap'[gameRooms[id]].moveHistory
           IN  /\ Len(h1) > Len(h0)
                    => /\ Len(h1) = Len(h0) + 1
                       /\ SubSeq(h1, 1, Len(h0)) = h0
                       /\ \E c \in Conns, m \in MoveInputs :
                              move(c, m, "accepted") /\ socketRoomId[c] = id
               /\ Len(h1) < Len(h0)
                    => /\ h1 = << >>
                       /\ \E c \in Conns : resetGame(c) /\ socketRoomId[c] = id
               /\ Len(h1) = Len(h0) => h1 = h0

\* C14: in every reachable state of every room moveHistory.length equals the
\* number of moves accepted since the room's creation or its last resetGame;
\* only an accepted move appends to it and only resetGame shortens it.
C14_HistoryLength == []HistoryCountsMoves /\ [][HistoryAppendOnly]_vars

\* a resetGame has just emptied the history of a room and the engine counts
\* no move
C14_Witness ==
    /\ Len(out) = 3 /\ out[1].ev = "gameReset"
    /\ out[3].ev = "moveHistory" /\ out[3].body = << >>
    /\ \E id \in ValidRoomIds :
           /\ RoomExists(id) /\ out[1].room = id
           /\ RoomOf(id).moveHistory = << >>
           /\ RoomOf(id).chess.ply = 0
           /\ Cardinality(out[1].to) = 2

(* ---------------------------------------------------------------------- *)
\* the first condition of EndConditions that holds in a terminal position
FirstCondition(over) ==
    EndConditions[CHOOSE i \in 1..Len(EndConditions) :
                      /\ EndConditions[i] \in ConditionsOf(over)
                      /\ \A j \in 1..(i - 1) : EndConditions[j] \notin ConditionsOf(over)]

\* C15: after an accepted move that leaves a terminal position exactly one
\* gameEnd is broadcast to the room, of the first matching condition in the
\* order checkmate, stalemate, repetition, insufficient material, other draw,
\* with the mover as winner for checkmate and no winner otherwise; after an
\* accepted move that is not terminal no gameEnd is emitted.
C15_OneGameEndPerTerminalMove ==
    [][ \A c \in Conns, m \in MoveInputs, o \in {"accepted"} \cup TerminalOutcomes :
          (move(c, m, o) /\ HoldsTurnSeat(c))
          => LET roomId == socketRoomId[c]
                 room0 == RoomOf(roomId)
                 ends == IndexesOf(out', "gameEnd")
             IN  IF o \in TerminalOutcomes
                 THEN /\ Cardinality(ends) = 1
                      /\ \A i \in ends :
                             /\ out'[i].room = roomId
                             /\ out'[i].body.type = FirstCondition(o)
                             /\ out'[i].body.winner =
                                    IF FirstCondition(o) = "checkmate"
                                    THEN TurnSeat(ChessTurn(room0.chess))
                                    ELSE "null"
                 ELSE ends = {} ]_vars

(* ---------------------------------------------------------------------- *)
\* the colour that plays against seat
Opponent(seat) == IF seat = "white" THEN "black" ELSE "white"

\* a resign by a connection that holds seat broadcasts the resignation with
\* the opponent of seat as winner
ResignBySeatHolder(c, seat) ==
    (resign(c) /\ socketRoomId[c] # NoRoomId /\ RoomExists(socketRoomId[c])
       /\ RoomOf(socketRoomId[c]).players[seat] = c)
    => /\ Len(out') = 1
       /\ out'[1].ev = "gameEnd"
       /\ out'[1].room = socketRoomId[c]
       /\ out'[1].to = Members(socketRoomId[c])
       /\ out'[1].body.type = "resignation"
       /\ out'[1].body.winner = Opponent(seat)

\* a resign by a connection without an existing room, or one that holds no
\* seat of it, emits nothing and changes nothing
ResignByOthers(c) ==
    (resign(c) /\ ~(socketRoomId[c] # NoRoomId /\ RoomExists(socketRoomId[c])
                      /\ IsPlayer(RoomOf(socketRoomId[c]), c)))
    => /\ out' = << >>
       /\ UNCHANGED << heap, gameRooms, playerSessions, timers >>

\* C16: resign sent by the connection holding white (black) broadcasts
\* gameEnd{type: resignation, winner: black (white)} to the room; resign sent
\* by a spectator or by a connection with no existing room emits nothing and
\* changes no state.
C16_Resign ==
    [][ \A c \in Conns :
          /\ \A seat \in Seats : ResignBySeatHolder(c, seat)
          /\ ResignByOthers(c) ]_vars

\* C16 for the connections that hold one seat of their room
C16_ResignOneSeat ==
    [][ \A c \in Conns :
          /\ \A seat \in Seats :
                 (RoomExists(socketRoomId[c])
                    /\ RoomOf(socketRoomId[c]).players[Opponent(seat)] = c)
                 \/ ResignBySeatHolder(c, seat)
          /\ ResignByOthers(c) ]_vars

(* ---------------------------------------------------------------------- *)
\* the handler that ran last broadcast a resignation to room roomId
JustResigned(roomId) ==
    \E i \in 1..Len(out) :
        /\ out[i].ev = "gameEnd" /\ out[i].room = roomId
        /\ out[i].body.type = "resignation"

\* C17: after a resignation gameEnd has been emitted in a room no move is
\* accepted in it until a resetGame: in particular the move submitted right
\* after the resignation leaves position and moveHistory unchanged.
C17_NoMoveAfterResignation ==
    [][ \A c \in Conns, m \in MoveInputs, o \in MoveOutcomes :
          (move(c, m, o) /\ JustResigned(socketRoomId[c])) => heap' = heap ]_vars

(* ---------------------------------------------------------------------- *)
\* the seat role of room id is free for a joinRoom: the room has no holder
\* for it, or does not exist yet
SeatFreeFor(id, role) == RoomExists(id) => SeatFree(RoomOf(id), role)

\* joinRoom for a free seat seats the joiner, stores a token no session was
\* stored under before, bound to (roomId, role), and unicasts it to the joiner
JoinFreeSeatIssuesToken ==
    \A c \in Conns, id \in ValidRoomIds, r \in Seats :
        (joinRoom(c, id, r) /\ SeatFreeFor(id, r))
        => LET t == out'[1].body
           IN  /\ heap'[gameRooms'[id]].players[r] = c
               /\ Len(out') = 6
               /\ out'[1].ev = "sessionId" /\ out'[1].to = {c}
               /\ t \notin 1..Len(playerSessions)
               /\ t \in 1..Len(playerSessions')
               /\ playerSessions'[t] = [roomId |-> id, role |-> r]
               /\ \A u \in 1..Len(playerSessions) :
                      playerSessions'[u] = playerSessions[u]
               /\ Len(playerSessions') = Len(playerSessions) + 1
               /\ out'[2].ev = "roleAssigned" /\ out'[2].body = r

\* a session is stored only by a step that assigns a seat to the connection
\* the token is sent to
TokenOnlyWithSeat ==
    /\ Len(playerSessions') > Len(playerSessions)
         => \E c \in Conns, r \in Seats :
                /\ Emitted(out', "roleAssigned", r)
                /\ \E id \in ValidRoomIds :
                       /\ gameRooms'[id] # None
                       /\ heap'[gameRooms'[id]].players[r] = c
                /\ out'[1].ev = "sessionId" /\ out'[1].to = {c}
    /\ Emitted(out', "roleAssigned", "spectator")
         => /\ playerSessions' = playerSessions
            /\ IndexesOf(out', "sessionId") = {}

\* C18: joinRoom with a valid room id and preferredRole white or black whose
\* seat is free assigns that seat to the joiner, creates a fresh session token
\* bound to (roomId, role) and unicasts it to the joiner; a token is created
\* only on seat assignment, never for a connection assigned spectator.
C18_JoinFreeSeat == [][ JoinFreeSeatIssuesToken /\ TokenOnlyWithSeat ]_vars

\* the second token of the run has just been issued with its seat
C18_Witness ==
    /\ Len(out) = 6
    /\ out[1].ev = "sessionId" /\ out[1].body = 2
    /\ KnownSession(2)
    /\ out[2].body = playerSessions[2].role
    /\ RoomExists(playerSessions[2].roomId)
    /\ out[1].to = {RoomOf(playerSessions[2].roomId).players[playerSessions[2].role]}

(* ---------------------------------------------------------------------- *)
\* C19: joinRoom requesting a seat that is occupied leaves the seat holder
\* unchanged, adds the joiner to spectators, reports roleAssigned "spectator",
\* issues no session token and unicasts one roleUnavailable naming the
\* requested role.
C19_JoinTakenSeat ==
    [][ \A c \in Conns, id \in ValidRoomIds, r \in Seats :
          (joinRoom(c, id, r) /\ RoomExists(id) /\ ~SeatFree(RoomOf(id), r))
          => LET room0 == RoomOf(id)
                 room1 == heap'[gameRooms[id]]
                 notices == IndexesOf(out', "roleUnavailable")
             IN  /\ room1.players = room0.players
                 /\ room1.spectators = Append(room0.spectators, c)
                 /\ playerSessions' = playerSessions
                 /\ IndexesOf(out', "sessionId") = {}
                 /\ Cardinality(IndexesOf(out', "roleAssigned")) = 1
                 /\ \A i \in IndexesOf(out', "roleAssigned") :
                        out'[i].body = "spectator" /\ out'[i].to = {c}
                 /\ Cardinality(notices) = 1
                 /\ \A i \in notices : out'[i].to = {c} /\ out'[i].body = r ]_vars

\* a joinRoom for a taken seat has just made the joiner a spectator
C19_Witness ==
    /\ Len(out) = 6
    /\ out[1].ev = "roleUnavailable" /\ out[2].ev = "roleAssigned"
    /\ out[2].body = "spectator"
    /\ Len(playerSessions) = 1
    /\ \E id \in ValidRoomIds, c \in Conns :
           /\ RoomExists(id)
           /\ out[1].to = {c}
           /\ RoomOf(id).players[out[1].body] \notin {None, c}
           /\ RoomOf(id).spectators = << c >>

(* ---------------------------------------------------------------------- *)
\* C20: joinRoom with no role preference is assigned deterministically: white
\* if the white seat is free, else black if the black seat is free, else
\* spectator.
C20_JoinNoPreference ==
    [][ \A c \in Conns, id \in ValidRoomIds :
          joinRoom(c, id, "undefined")
          => Emitted(out', "roleAssigned",
                     IF SeatFreeFor(id, "white") THEN "white"
                     ELSE IF SeatFreeFor(id, "black") THEN "black"
                     ELSE "spectator") ]_vars

(* ---------------------------------------------------------------------- *)
\* C21: every successful joinRoom, whatever branch assigned the role, unicasts
\* to the joiner roleAssigned, then boardState (the current position), then
\* the full moveHistory, then the full chatHistory, and only afterwards
\* broadcasts playersUpdate to the room, reflecting the occupancy after the
\* join (so three connections joining a fresh room as white, black and
\* spectator end with {white: connected, black: connected, spectators: 1}).
C21_JoinDelivery ==
    [][ \A c \in Conns, id \in RoomIdInputs, r \in validRoles :
          (joinRoom(c, id, r) /\ validateRoomId(id))
          => LET room1 == heap'[gameRooms'[id]]
                 n == Len(out')
             IN  /\ n >= 5
                 /\ SubSeq(EventsOf(out'), n - 4, n) =
                        << "roleAssigned", "boardState", "moveHistory",
                           "chatHistory", "playersUpdate" >>
                 /\ \A i \in (n - 4)..(n - 1) :
                        out'[i].to = {c} /\ out'[i].room = NoRoomId
                 /\ out'[n - 4].body \in validRoles
                 /\ out'[n - 4].body \in Seats
                        => room1.players[out'[n - 4].body] = c
                 /\ out'[n - 4].body = "spectator"
                        => /\ room1.spectators # << >>
                           /\ room1.spectators[Len(room1.spectators)] = c
                 /\ out'[n - 3].body = ChessFen(room1.chess)
                 /\ out'[n - 2].body = room1.moveHistory
                 /\ out'[n - 1].body = room1.chatHistory
                 /\ IndexesOf(out', "playersUpdate") = {n}
                 /\ out'[n].room = id
                 /\ out'[n].to = { x \in Conns : id \in socketRooms'[x] }
                 /\ c \in out'[n].to
                 /\ out'[n].body =
                        [ white |-> IF room1.players.white # None
                                    THEN "connected" ELSE "waiting",
                          black |-> IF room1.players.black # None
                                    THEN "connected" ELSE "waiting",
                          spectators |-> Len(room1.spectators) ] ]_vars

\* three distinct connections have joined one room as white, black and
\* spectator, the last join was just broadcast to the three of them, and a
\* move was made before it
C21_Witness ==
    /\ Len(out) = 5
    /\ out[5].ev = "playersUpdate"
    /\ out[5].body = [white |-> "connected", black |-> "connected", spectators |-> 1]
    /\ Cardinality(out[5].to) = 3
    /\ out[3].body # << >>
    /\ \E id \in ValidRoomIds :
           /\ RoomExists(id) /\ out[5].room = id
           /\ Cardinality({RoomOf(id).players.white, RoomOf(id).players.black,
                            RoomOf(id).spectators[1]}) = 3

(* ---------------------------------------------------------------------- *)
\* a character of [A-Za-z0-9-]
RoomIdFormatChar(ch) ==
    \/ \E i \in 1..Len(LowerCase) : LowerCase[i] = ch
    \/ \E i \in 1..Len(UpperCase) : UpperCase[i] = ch
    \/ ch \in Digits
    \/ ch = "-"

\* the room id is 4 to 12 characters of [A-Za-z0-9-]
MatchesRoomIdFormat(id) ==
    /\ Len(id) >= RoomIdMinLen /\ Len(id) <= RoomIdMaxLen
    /\ \A i \in 1..Len(id) : RoomIdFormatChar(id[i])

\* C22: joinRoom with a room id that is not 4 to 12 characters of
\* [A-Za-z0-9-], or with a preferredRole outside {white, black, spectator},
\* unicasts an error to the sender and changes nothing: no room is created, no
\* seat or spectator entry is added, no token is issued and the connection's
\* room membership is unchanged.
C22_InvalidJoinRejected ==
    [][ \A c \in Conns, id \in RoomIdInputs, r \in RoleInputs :
          (joinRoom(c, id, r) /\ (~MatchesRoomIdFormat(id) \/ r \notin validRoles))
          => /\ Len(out') = 1
             /\ out'[1].ev = "error" /\ out'[1].to = {c}
             /\ UNCHANGED << heap, gameRooms, playerSessions, sessionOwner,
                             socketRoomId, socketRooms >> ]_vars

(* ---------------------------------------------------------------------- *)
\* every room's chatHistory has at most ChatHistoryMax entries
ChatHistoryBounded ==
    \A i \in 1..Len(heap) : Len(heap[i].chatHistory) <= ChatHistoryMax

\* a step that broadcasts a chat message puts it last in the history, after
\* the entries that were there, in their order, less the oldest one when the
\* history was full; no other step changes a history
ChatHistoryFifo ==
    \A i \in 1..Len(heap) :
        LET h0 == heap[i].chatHistory
            h1 == heap'[i].chatHistory
            sent == IndexesOf(out', "chatMessage")
        IN  IF sent # {} /\ (\E id \in ValidRoomIds, k \in sent :
                                 gameRooms[id] = i /\ out'[k].room = id)
            THEN /\ h1 # << >>
                 /\ \A k \in sent : h1[Len(h1)] = out'[k].body
                 /\ SubSeq(h1, 1, Len(h1) - 1) =
                        IF Len(h0) = ChatHistoryMax THEN Tail(h0) ELSE h0
            ELSE h1 = h0

\* C23: in every reachable state every room's chatHistory has at most 50
\* entries, and an accepted message that arrives at a full history drops the
\* oldest entry and keeps the order of the others.
C23_ChatHistoryBound == []ChatHistoryBounded /\ [][ChatHistoryFifo]_vars

\* a history of 50 entries whose first message, sent at time 0, is gone
C23_Witness ==
    \E i \in 1..Len(heap) :
        /\ Len(heap[i].chatHistory) = ChatHistoryMax
        /\ heap[i].chatHistory[1].timestamp > 0
        /\ Len(out) = 1 /\ out[1].ev = "chatMessage"

(* ---------------------------------------------------------------------- *)
\* C24: a chatMessage from a connection that holds neither seat of its room
\* is rejected: only the sender receives chatError, chatHistory is unchanged
\* and no chatMessage is broadcast; an accepted message from a seated player
\* is appended to chatHistory and broadcast to the whole room, the sender
\* included.
C24_ChatPlayersOnly ==
    [][ \A c \in Conns, data \in ChatInputs :
          (chatMessage(c, data) /\ socketRoomId[c] # NoRoomId
             /\ RoomExists(socketRoomId[c]))
          => LET roomId == socketRoomId[c]
                 room0 == RoomOf(roomId)
                 room1 == heap'[gameRooms[roomId]]
             IN  IF ~IsPlayer(room0, c)
                 THEN /\ Len(out') = 1
                      /\ out'[1].ev = "chatError" /\ out'[1].to = {c}
                      /\ heap' = heap
                 ELSE IndexesOf(out', "chatMessage") # {}
                      => /\ Len(out') = 1
                         /\ out'[1].room = roomId
                         /\ out'[1].to = Members(roomId) /\ c \in out'[1].to
                         /\ out'[1].body.socketId = c
                         /\ out'[1].body.message = trim(data)
                         /\ room1.chatHistory[Len(room1.chatHistory)] = out'[1].body
                         /\ Len(room1.chatHistory) = Len(room0.chatHistory) + 1
                               \/ Len(room0.chatHistory) = ChatHistoryMax ]_vars

\* a spectator's message has just been refused in a room whose chat has a
\* message of the player
C24_Witness ==
    /\ Len(out) = 1
    /\ out[1].ev = "chatError" /\ out[1].body = "Only players can send messages"
    /\ \E c \in Conns :
           /\ out[1].to = {c}
           /\ RoomExists(socketRoomId[c])
           /\ RoomOf(socketRoomId[c]).spectators = << c >>
           /\ RoomOf(socketRoomId[c]).chatHistory # << >>

(* ---------------------------------------------------------------------- *)
\* C25: when a connection has used 5 chat actions in the current 30 s window,
\* its next chatMessage in that window is rejected with a chatError to the
\* sender only; chatHistory and the rest of the state are unchanged and
\* nothing is broadcast.
C25_ChatRateLimited ==
    [][ \A c \in Conns, data \in ChatInputs :
          (chatMessage(c, data) /\ socketRoomId[c] # NoRoomId
             /\ RoomExists(socketRoomId[c])
             /\ rateLimits[c] # NoLimit
             /\ rateLimits[c].count >= ChatRateMax
             /\ now <= rateLimits[c].resetTime)
          => /\ Len(out') = 1
             /\ out'[1].ev = "chatError" /\ out'[1].to = {c}
             /\ out'[1].room = NoRoomId
             /\ UNCHANGED << heap, gameRooms, playerSessions, socketRoomId,
                             socketRooms, rateLimits >> ]_vars

\* the sixth message of the player in one window has just been refused
C25_Witness ==
    /\ Len(out) = 1
    /\ out[1].ev = "chatError"
    /\ out[1].body = "You are sending messages too quickly"
    /\ \E c \in Conns :
           /\ out[1].to = {c}
           /\ RoomExists(socketRoomId[c])
           /\ IsPlayer(RoomOf(socketRoomId[c]), c)
           /\ rateLimits[c].count = ChatRateMax
           /\ Len(RoomOf(socketRoomId[c]).chatHistory) = ChatRateMax

(* ---------------------------------------------------------------------- *)
\* the entries of history sent by c in the ChatWindowMs that start with entry i
SentInWindowFrom(history, c, i) ==
    { j \in i..Len(history) :
        /\ history[j].socketId = c
        /\ history[j].timestamp - history[i].timestamp < ChatWindowMs }

\* C26: the chat rate limiter is a sliding-window counter: for every
\* connection and every interval of 30 s at most 5 of the connection's chat
\* messages pass the limit within the interval (so at most 5 of its messages
\* in any 30 s of a chatHistory).
C26_SlidingWindow ==
    \A i \in 1..Len(heap), c \in Conns, k \in 1..ChatHistoryMax :
        k <= Len(heap[i].chatHistory)
        => Cardinality(SentInWindowFrom(heap[i].chatHistory, c, k)) <= ChatRateMax

\* the entries of history that c sent in the limiter's current window
SentInCurrentWindow(history, c) ==
    { j \in 1..Len(history) :
        /\ history[j].socketId = c
        /\ history[j].timestamp >= rateLimits[c].resetTime - ChatWindowMs }

\* C26, amended: the chat rate limiter is a fixed-window counter: a window
\* of 30 s opens at a connection's first chat request and at its first
\* request after the window before is over, and at most 5 of the
\* connection's chat messages pass the limit within one window (the count of
\* the window never exceeds 5 and covers every message stored in it).
C26_FixedWindow ==
    \A i \in 1..Len(heap), c \in Conns :
        rateLimits[c] # NoLimit
        => /\ rateLimits[c].count <= ChatRateMax
           /\ Cardinality(SentInCurrentWindow(heap[i].chatHistory, c))
                  <= rateLimits[c].count

\* a connection has used up its second window, and more than 5 of its
\* messages lie within 30 s across the two windows
C26_Witness ==
    \E i \in 1..Len(heap), c \in Conns, k \in 1..MaxChat :
        /\ rateLimits[c].count = ChatRateMax
        /\ rateLimits[c].resetTime > now
        /\ k <= Len(heap[i].chatHistory)
        /\ heap[i].chatHistory[k].timestamp < rateLimits[c].resetTime - ChatWindowMs
        /\ Cardinality(SentInWindowFrom(heap[i].chatHistory, c, k)) > ChatRateMax
        /\ Cardinality(SentInCurrentWindow(heap[i].chatHistory, c)) = ChatRateMax

(* ---------------------------------------------------------------------- *)
\* str without its embedded markup: the characters from "<" to the next ">"
RECURSIVE StripMarkup(_, _)
StripMarkup(str, inTag) ==
    IF str = << >> THEN << >>
    ELSE IF Head(str) = "<" THEN StripMarkup(Tail(str), TRUE)
    ELSE IF Head(str) = ">" THEN StripMarkup(Tail(str), FALSE)
    ELSE IF inTag THEN StripMarkup(Tail(str), inTag)
    ELSE << Head(str) >> \o StripMarkup(Tail(str), inTag)

\* the text the claim has stored: trimmed, stripped of markup, capped
Sanitized(data) ==
    LET text == StripMarkup(trim(data), FALSE)
    IN  IF Len(text) > ChatMaxLen THEN SubSeq(text, 1, ChatMaxLen) ELSE text

\* C27: for a chat message from a seated, non-rate-limited player the stored
\* and broadcast text is the input trimmed, capped to 200 characters and
\* stripped of markup; the message is rejected (chatError to the sender only,
\* chatHistory unchanged) only when that text is empty, so an over-long
\* message or one with markup is accepted in sanitized form.
C27_ChatSanitized ==
    [][ \A c \in Conns, data \in ChatInputs :
          (chatMessage(c, data) /\ socketRoomId[c] # NoRoomId
             /\ RoomExists(socketRoomId[c])
             /\ IsPlayer(RoomOf(socketRoomId[c]), c)
             /\ checkRateLimit(rateLimits[c], now, ChatRateMax))
          => LET room1 == heap'[gameRooms[socketRoomId[c]]]
             IN  IF Sanitized(data) = << >>
                 THEN /\ Len(out') = 1
                      /\ out'[1].ev = "chatError" /\ out'[1].to = {c}
                      /\ heap' = heap
                 ELSE /\ Len(out') = 1
                      /\ out'[1].ev = "chatMessage"
                      /\ out'[1].body.message = Sanitized(data)
                      /\ room1.chatHistory[Len(room1.chatHistory)].message =
                             Sanitized(data) ]_vars

\* text is blank, longer than 200 characters or holds a character that is
\* no letter, digit, white space or one of -_.,!?'"()
InvalidContent(text) ==
    \/ Len(text) = 0
    \/ Len(text) > ChatMaxLen
    \/ \E i \in 1..Len(text) :
           /\ \A j \in 1..Len(LowerCase) :
                  text[i] # LowerCase[j] /\ text[i] # UpperCase[j]
           /\ text[i] \notin Digits \cup WhiteSpace \cup AllowedPunctuation

\* C27, amended: for a chat message from a seated, non-rate-limited player
\* the stored and broadcast text is the input trimmed and nothing else; the
\* message is rejected (chatError to the sender only, chatHistory unchanged)
\* when the trimmed input is empty, longer than 200 characters or holds a
\* character outside letters, digits, white space and -_.,!?'"(), so an
\* over-long message or one with markup is rejected, not sanitized.
C27_ChatValidated ==
    [][ \A c \in Conns, data \in ChatInputs :
          (chatMessage(c, data) /\ socketRoomId[c] # NoRoomId
             /\ RoomExists(socketRoomId[c])
             /\ IsPlayer(RoomOf(socketRoomId[c]), c)
             /\ checkRateLimit(rateLimits[c], now, ChatRateMax))
          => LET room1 == heap'[gameRooms[socketRoomId[c]]]
             IN  IF InvalidContent(trim(data))
                 THEN /\ Len(out') = 1
                      /\ out'[1].ev = "chatError" /\ out'[1].to = {c}
                      /\ out'[1].body = "Invalid message content"
                      /\ heap' = heap
                 ELSE /\ Len(out') = 1
                      /\ out'[1].ev = "chatMessage"
                      /\ out'[1].body.message = trim(data)
                      /\ room1.chatHistory[Len(room1.chatHistory)].message =
                             trim(data) ]_vars

\* a seated player's message has just been refused for its content, after a
\* padded message of the player was stored trimmed
C27_Witness ==
    /\ Len(out) = 1
    /\ out[1].ev = "chatError"
    /\ out[1].body = "Invalid message content"
    /\ \E c \in Conns :
           /\ out[1].to = {c}
           /\ RoomExists(socketRoomId[c])
           /\ IsPlayer(RoomOf(socketRoomId[c]), c)
           /\ LET history == RoomOf(socketRoomId[c]).chatHistory
              IN  /\ Len(history) >= 1
                  /\ history[Len(history)].socketId = c
                  /\ history[Len(history)].message = << "h", "i" >>

(* ---------------------------------------------------------------------- *)
\* C28: offerDraw from a seated player whose opponent seat is occupied
\* delivers drawOfferReceived to the opponent connection only (to no other
\* connection of the room, and to the opponent when its connection is open);
\* if the opponent seat is empty only the offerer receives an error; offerDraw
\* from a connection that holds no seat delivers nothing; room state is
\* unchanged in every case.
C28_OfferDraw ==
    [][ \A c \in Conns :
          offerDraw(c)
          => /\ UNCHANGED << heap, gameRooms, playerSessions, timers >>
             /\ IF socketRoomId[c] # NoRoomId /\ RoomExists(socketRoomId[c])
                   /\ IsPlayer(RoomOf(socketRoomId[c]), c)
                THEN \A seat \in Seats :
                       RoomOf(socketRoomId[c]).players[seat] = c
                       => LET opp == RoomOf(socketRoomId[c]).players[Opponent(seat)]
                              offers == IndexesOf(out', "drawOfferReceived")
                          IN  IF opp = None
                              THEN /\ Len(out') = 1
                                   /\ out'[1].ev = "drawOfferError"
                                   /\ out'[1].to = {c}
                              ELSE /\ Cardinality(offers) = 1
                                   /\ \A i \in offers :
                                          /\ out'[i].to \subseteq {opp}
                                          /\ connected[opp] => out'[i].to = {opp}
                                   /\ \A i \in 1..Len(out') :
                                          i \notin offers => out'[i].to = {c}
                ELSE out' = << >> ]_vars

\* an offer has just been delivered to the opponent alone in a room of three
C28_Witness ==
    /\ Len(out) = 2
    /\ out[1].ev = "drawOfferReceived"
    /\ \E c \in Conns, id \in ValidRoomIds :
           /\ out[2].to = {c}
           /\ RoomExists(id)
           /\ Cardinality(Members(id)) = 3
           /\ out[1].to = {opponentId(RoomOf(id), c)}
           /\ opponentId(RoomOf(id), c) # c

(* ---------------------------------------------------------------------- *)
\* the handler that ran last was an offerDraw of connection x that went out
JustOffered(x) ==
    /\ Len(out) = 2
    /\ out[1].ev = "drawOfferReceived"
    /\ out[2].ev = "drawOfferSent" /\ out[2].to = {x}

\* C29: respondToDraw from a seated player with accepted = true broadcasts
\* gameEnd{type: draw_agreement, winner: null} to the room; with accepted =
\* false it delivers drawOfferDeclined to the original offerer only; from a
\* connection that holds no seat it emits nothing.
C29_RespondToDraw ==
    [][ \A c \in Conns, accepted \in BOOLEAN :
          (respondToDraw(c, accepted) /\ socketRoomId[c] # NoRoomId
             /\ RoomExists(socketRoomId[c]))
          => IF ~IsPlayer(RoomOf(socketRoomId[c]), c)
             THEN out' = << >>
             ELSE IF accepted
             THEN /\ Len(out') = 1
                  /\ out'[1].ev = "gameEnd"
                  /\ out'[1].room = socketRoomId[c]
                  /\ out'[1].body = [type |-> "draw_agreement", winner |-> "null"]
             ELSE \A x \in Conns :
                    JustOffered(x)
                    => /\ Len(out') = 1
                       /\ out'[1].ev = "drawOfferDeclined"
                       /\ out'[1].to = {x} ]_vars

(* ---------------------------------------------------------------------- *)
\* C30: resetGame from a seated player sets the position to the starting one
\* with white to move, empties moveHistory and broadcasts the fresh boardState
\* and the empty moveHistory to the room, leaving seats, spectators,
\* chatHistory and session tokens unchanged; resetGame from a spectator or
\* from a connection without an existing room changes nothing and broadcasts
\* nothing.
C30_ResetGame ==
    [][ \A c \in Conns :
          resetGame(c)
          => IF socketRoomId[c] # NoRoomId /\ RoomExists(socketRoomId[c])
                /\ \E seat \in Seats : RoomOf(socketRoomId[c]).players[seat] = c
             THEN LET roomId == socketRoomId[c]
                      room0 == RoomOf(roomId)
                      room1 == heap'[gameRooms[roomId]]
                  IN  /\ room1.chess = [turn |-> "w", ply |-> 0, over |-> "none"]
                      /\ room1.moveHistory = << >>
                      /\ room1.players = room0.players
                      /\ room1.spectators = room0.spectators
                      /\ room1.chatHistory = room0.chatHistory
                      /\ \A i \in 1..Len(heap) :
                             i # gameRooms[roomId] => heap'[i] = heap[i]
                      /\ UNCHANGED << gameRooms, playerSessions, sessionOwner >>
                      /\ Emitted(out', "boardState", ChessFen(NewChess))
                      /\ Emitted(out', "moveHistory", << >>)
                      /\ \A i \in 1..Len(out') :
                             out'[i].room = roomId /\ out'[i].to = Members(roomId)
             ELSE /\ out' = << >>
                  /\ UNCHANGED << heap, gameRooms, playerSessions, sessionOwner >> ]_vars

\* a reset has just been broadcast in a room with both seats held and a
\* spectator
C30_Witness ==
    /\ Len(out) = 3 /\ out[1].ev = "gameReset"
    /\ \E id \in ValidRoomIds :
           /\ RoomExists(id) /\ out[1].room = id
           /\ RoomOf(id).spectators # << >>
           /\ RoomOf(id).chess = NewChess
           /\ RoomOf(id).players.white # None
           /\ RoomOf(id).players.black # None

(* ---------------------------------------------------------------------- *)
\* a move or a chat message was accepted in room less than the idle
\* threshold before the instant t
RecentlyActive(room, t) ==
    \/ \E i \in 1..Len(room.moveHistory) :
           t - room.moveHistory[i].timestamp < InactivityThresholdMs
    \/ \E i \in 1..Len(room.chatHistory) :
           t - room.chatHistory[i].timestamp < InactivityThresholdMs

\* a step that appends to a room's moveHistory or chatHistory stamps the
\* room's lastActivity with the time of the step
ActivityStamped ==
    \A id \in ValidRoomIds :
        (RoomExists(id)
           /\ \/ Len(heap'[gameRooms[id]].moveHistory) > Len(RoomOf(id).moveHistory)
              \/ Len(heap'[gameRooms[id]].chatHistory) > Len(RoomOf(id).chatHistory))
        => heap'[gameRooms[id]].lastActivity = now

\* the idle sweep keeps every room that was recently active
RecentRoomKept ==
    sweepInactiveRooms
    => \A id \in ValidRoomIds :
          (RoomExists(id) /\ RecentlyActive(RoomOf(id), now'))
          => gameRooms'[id] # None

\* C31: a room's lastActivity is updated on every room-affecting action
\* (here: an accepted move, an accepted chat message), so a room in which a
\* move or a chat message was accepted less than one hour ago is never
\* removed by the idle sweep.
C31_ActivityKeepsRoom == [][ActivityStamped /\ RecentRoomKept]_vars

(* ---------------------------------------------------------------------- *)
\* a room comes into the registry only by a joinRoom with a valid role for
\* its id, which then had no room
CreatedOnlyByJoin ==
    \A id \in ValidRoomIds :
        (gameRooms'[id] # None /\ gameRooms'[id] # gameRooms[id])
        => /\ gameRooms[id] = None
           /\ \E c \in Conns, r \in validRoles : joinRoom(c, id, r)

\* a room leaves the registry only in an idle sweep
RemovedOnlyBySweep ==
    \A id \in ValidRoomIds :
        (gameRooms[id] # None /\ gameRooms'[id] # gameRooms[id])
        => sweepInactiveRooms /\ gameRooms'[id] = None

\* an idle sweep removes the rooms whose lastActivity is more than the
\* threshold before the instant of the sweep, and no other
SweepRemovesIdleOnly ==
    sweepInactiveRooms
    => \A id \in ValidRoomIds :
          gameRooms[id] # None
          => (gameRooms'[id] = None
                <=> now' - RoomOf(id).lastActivity > InactivityThresholdMs)

\* C32: a room comes into existence only through a validated joinRoom for
\* an unseen room id, never through another message; it is removed only by
\* the idle sweep, which at each run removes exactly the rooms whose
\* lastActivity is more than one hour in the past and keeps all others.
C32_RoomLifecycle ==
    [][CreatedOnlyByJoin /\ RemovedOnlyBySweep /\ SweepRemovesIdleOnly]_vars

\* an idle sweep has just removed one room, whose session is still there,
\* and kept another that has been idle for exactly the threshold
C32_Witness ==
    /\ sessionSweepDue
    /\ \E t \in 1..Len(playerSessions) :
           /\ playerSessions[t] # NoSession
           /\ gameRooms[playerSessions[t].roomId] = None
    /\ \E id \in ValidRoomIds :
           /\ gameRooms[id] # None
           /\ now - RoomOf(id).lastActivity = InactivityThresholdMs

(* ---------------------------------------------------------------------- *)
\* the token s is missing or unknown, or its room is no longer there
StaleToken(s) ==
    \/ s = None
    \/ s > Len(playerSessions)
    \/ playerSessions[s] = NoSession
    \/ gameRooms[playerSessions[s].roomId] = None

\* C33: reconnect with an unknown or missing token, or with a token whose
\* room no longer exists, is a silent no-op: no message is sent, no room is
\* created, and seats, spectators, sessions and the connection's room
\* membership are unchanged.
C33_StaleReconnectIgnored ==
    [][ \A c \in Conns, s \in SessionInputs :
          (reconnect(c, s) /\ StaleToken(s))
          => /\ out' = << >>
             /\ gameRooms' = gameRooms /\ heap' = heap
             /\ playerSessions' = playerSessions
             /\ socketRoomId' = socketRoomId /\ socketRooms' = socketRooms ]_vars

\* nothing was sent by the last step, and a token whose room the idle sweep
\* has removed is still in playerSessions while its owner is connected, so
\* that a reconnect with it is a step of this kind
C33_Witness ==
    /\ out = << >>
    /\ \E s \in 1..Len(playerSessions) :
           /\ playerSessions[s] # NoSession
           /\ gameRooms[playerSessions[s].roomId] = None
           /\ connected[sessionOwner[s]]
           /\ socketRoomId[sessionOwner[s]] = playerSessions[s].roomId

(* ---------------------------------------------------------------------- *)
\* c holds no seat of the room of its socket.roomId
HoldsNoSeat(c) ==
    \/ socketRoomId[c] = NoRoomId
    \/ ~RoomExists(socketRoomId[c])
    \/ /\ RoomOf(socketRoomId[c]).players.white # c
       /\ RoomOf(socketRoomId[c]).players.black # c

\* the chat limiter refuses c's next message
ChatLimitReached(c) ==
    /\ rateLimits[c].count >= ChatRateMax
    /\ now <= rateLimits[c].resetTime

\* the step is the handling of a message of c that fails validation or
\* permission, or that has no payload
FailingMessage(c) ==
    \/ \E id \in SweepRoomInputs, r \in RoleInputs :
          joinRoom(c, id, r) /\ (~MatchesRoomIdFormat(id) \/ r \notin validRoles)
    \/ \E m \in MoveInputs, o \in MoveOutcomes :
          move(c, m, o) /\ (~HoldsTurnSeat(c) \/ o # "accepted")
    \/ /\ HoldsNoSeat(c)
       /\ \/ \E data \in FatalChatInputs : chatMessage(c, data)
          \/ resign(c)
          \/ resetGame(c)
          \/ offerDraw(c)
          \/ \E accepted \in BOOLEAN : respondToDraw(c, accepted)
    \/ \E data \in FatalChatInputs :
          chatMessage(c, data)
             /\ (ChatLimitReached(c) \/ InvalidContent(trim(data)))
    \/ reconnect(c, None)
    \/ joinRoomNoPayload(c)
    \/ chatMessageNoPayload(c)
    \/ respondToDrawNoPayload(c)

\* the same rooms, with the same seats, spectators, position, moveHistory
\* and chatHistory, before and after the step
RoomsUntouched ==
    \A id \in ValidRoomIds :
        /\ (gameRooms'[id] = None) = (gameRooms[id] = None)
        /\ gameRooms[id] # None
           => LET room == RoomOf(id)
                  room1 == heap'[gameRooms'[id]]
              IN  /\ room1.players = room.players
                  /\ room1.spectators = room.spectators
                  /\ room1.chess = room.chess
                  /\ room1.moveHistory = room.moveHistory
                  /\ room1.chatHistory = room.chatHistory

\* C34: no client message is fatal to the server: every message that fails
\* validation or permission, or whose payload is missing, is handled within
\* the sender's request without an uncaught exception (the process lives
\* on: the sender's connection stays open) and leaves every room's seats,
\* spectators, position, moveHistory and chatHistory unchanged.
C34_NoFatalMessage ==
    [][ \A c \in Conns :
          FailingMessage(c) => (connected'[c] /\ RoomsUntouched) ]_vars

(* ---------------------------------------------------------------------- *)
\* C35: a gameEnd of type draw_agreement is broadcast in a room only if the
\* opponent of the responding player sent an offerDraw before that has not
\* been answered; a respondToDraw{accepted: true} with no pending offer does
\* not end the game.  Where no connection ever sends offerDraw, no offer is
\* pending, and so no step broadcasts a gameEnd of type draw_agreement.
C35_DrawNeedsOffer ==
    \A i \in 1..Len(out) :
        out[i].ev = "gameEnd" => out[i].body.type # "draw_agreement"

(* ---------------------------------------------------------------------- *)
\* the room that issued token t has been removed: the token is recorded
\* and its room id has no room
IssuingRoomRemoved(t) ==
    /\ t <= Len(playerSessions)
    /\ playerSessions[t] # NoSession
    /\ gameRooms[playerSessions[t].roomId] = None

\* a reconnect with token t now re-occupies the token's seat: the token is
\* recorded, its room id has a room, and the seat of its role is free there
GrantsSeat(t) ==
    /\ t <= Len(playerSessions)
    /\ playerSessions[t] # NoSession
    /\ RoomExists(playerSessions[t].roomId)
    /\ RoomOf(playerSessions[t].roomId).players[playerSessions[t].role] = None

\* C36: a reconnection token only ever grants a seat in the room instance
\* that issued it: once that room has been removed by the idle sweep the
\* token is invalid, so no step (such as the creation of a new room under
\* the same room id, before or after the session sweep) makes it a token
\* that a reconnect honours with a seat.
C36_TokenBoundToRoom ==
    [][ \A t \in Tokens : IssuingRoomRemoved(t) => ~GrantsSeat(t)' ]_vars

(* ---------------------------------------------------------------------- *)
\* C37: every seat is released after its holder disconnects: once the grace
\* timer of a disconnected connection has fired, no seat of a room still in
\* the registry is held by that connection, also when the connection had
\* sent joinRoom more than once.
C37_SeatsReleased ==
    [][ graceTimerExpires
          => \A id \in ValidRoomIds, seat \in Seats :
                gameRooms'[id] # None
                => heap'[gameRooms'[id]].players[seat] # Head(timers).conn ]_vars

====
